---- MODULE Spec2Model ----
\* A model of the poke-backend aggregation-and-cache engine
\* (src/src/routes/pokemon.js): the TTL cache (getCachedOrFetch), the list
\* handler GET /api/pokemons and the number-lookup handler
\* GET /api/pokemons/number/:numbers, run by concurrent requests against an
\* upstream catalog whose listing changes and whose calls can fail.
\*
\* JavaScript strings that the code takes apart (query parameters, names in
\* a substring search) are sequences of one-character strings. A query
\* parameter is a record: Given(s) when the request carries it, Missing
\* (undefined) when it does not; sortBy and sortOrder, which the code only
\* compares whole, are plain strings, with NoSort for undefined.
EXTENDS Integers, Sequences, FiniteSets, TLC

\* ------------------------------------------------------------------ bounds

MaxReq == 2
MaxWindows == 1

\* --------------------------------------------------------- program constants

CACHE_TTL == 5 * 60 * 1000
DefaultLimit == 20
MaxLimit == 100

\* ------------------------------------------------------------ JS primitives

Missing == [set |-> FALSE, s |-> <<>>]
Given(s) == [set |-> TRUE, s |-> s]
NoSort == ""

Min(a, b) == IF a < b THEN a ELSE b
Max(a, b) == IF a > b THEN a ELSE b

Digits == <<"0", "1", "2", "3", "4", "5", "6", "7", "8", "9">>
IsDigit(c) == \E i \in 1..10 : Digits[i] = c
DigitVal(c) == (CHOOSE i \in 1..10 : Digits[i] = c) - 1

IsSpace(c) == c = " "

RECURSIVE TrimStart(_)
TrimStart(s) ==
  IF s # <<>> /\ IsSpace(Head(s)) THEN TrimStart(Tail(s)) ELSE s

RECURSIVE TrimEnd(_)
TrimEnd(s) ==
  IF s # <<>> /\ IsSpace(s[Len(s)]) THEN TrimEnd(SubSeq(s, 1, Len(s) - 1)) ELSE s

\* String.prototype.trim
Trim(s) == TrimEnd(TrimStart(s))

Upper == <<"A", "B", "C", "H", "I", "R">>
LowerOf == <<"a", "b", "c", "h", "i", "r">>

\* String.prototype.toLowerCase, one character
LowerChar(c) ==
  IF \E i \in 1..Len(Upper) : Upper[i] = c
  THEN LowerOf[CHOOSE i \in 1..Len(Upper) : Upper[i] = c]
  ELSE c

ToLowerCase(s) == [i \in 1..Len(s) |-> LowerChar(s[i])]

\* String.prototype.split(sep) for a one-character separator: always at
\* least one segment, empty segments kept.
RECURSIVE SplitAcc(_, _, _)
SplitAcc(s, sep, cur) ==
  IF s = <<>> THEN <<cur>>
  ELSE IF Head(s) = sep THEN <<cur>> \o SplitAcc(Tail(s), sep, <<>>)
  ELSE SplitAcc(Tail(s), sep, Append(cur, Head(s)))

Split(s, sep) == SplitAcc(s, sep, <<>>)

DigitPrefixFirstDigit(s, acc, n) ==
  IF s # <<>> /\ IsDigit(Head(s))
  THEN [v |-> DigitVal(Head(s)), n |-> 1]
  ELSE [v |-> 0, n |-> 0]

\* the digits at the front of s, as a number, and how many there are
RECURSIVE DigitPrefix(_, _, _)
DigitPrefix(s, acc, n) ==
  IF s # <<>> /\ IsDigit(Head(s))
  THEN DigitPrefix(Tail(s), 10 * acc + DigitVal(Head(s)), n + 1)
  ELSE [v |-> acc, n |-> n]

NaN == [nan |-> TRUE, v |-> 0]
Num(n) == [nan |-> FALSE, v |-> n]

\* parseInt(x) / parseInt(x, 10) of a query or path string: leading white
\* space is skipped, one sign is read, then the longest run of digits; NaN
\* when there is none (and for undefined).
ParseIntStr(s) ==
  LET t == TrimStart(s)
      neg == t # <<>> /\ Head(t) = "-"
      signed == t # <<>> /\ Head(t) \in {"-", "+"}
      body == IF signed THEN Tail(t) ELSE t
      d == DigitPrefix(body, 0, 0)
  IN IF d.n = 0 THEN NaN
     ELSE Num(IF neg THEN 0 - d.v ELSE d.v)

ParseInt(x) == IF x.set THEN ParseIntStr(x.s) ELSE NaN

\* `n || dflt` for a number n: NaN and 0 are falsy
OrDefault(n, dflt) == IF n.nan \/ n.v = 0 THEN dflt ELSE n.v

\* Array.prototype.slice(start, end): a negative index counts from the end,
\* both are clamped to the array.
Slice(s, start, end) ==
  LET len == Len(s)
      k == IF start < 0 THEN Max(len + start, 0) ELSE Min(start, len)
      fin == IF end < 0 THEN Max(len + end, 0) ELSE Min(end, len)
  IN IF fin > k THEN SubSeq(s, k + 1, fin) ELSE <<>>

\* String.prototype.indexOf(term) !== -1
Contains(s, term) ==
  \E i \in 0..(Len(s) - Len(term)) : SubSeq(s, i + 1, i + Len(term)) = term

\* --------------------------------------------------------- upstream catalog

\* The names the upstream catalog can list, with their characters and the
\* id the upstream assigns to each (GET {base}/pokemon/<name> -> data.id).
Names == {"bulbasaur", "ivysaur", "charmander"}

Chars(name) ==
  CASE name = "bulbasaur" -> <<"b", "u", "l", "b", "a", "s", "a", "u", "r">>
    [] name = "ivysaur" -> <<"i", "v", "y", "s", "a", "u", "r">>
    [] name = "charmander" -> <<"c", "h", "a", "r", "m", "a", "n", "d", "e", "r">>

PokeId(name) ==
  CASE name = "bulbasaur" -> 1
    [] name = "ivysaur" -> 2
    [] name = "charmander" -> 4

Alphabet ==
  <<"a", "b", "c", "d", "e", "f", "g", "h", "i", "j", "k", "l", "m",
    "n", "o", "p", "q", "r", "s", "t", "u", "v", "w", "x", "y", "z">>
Rank(c) == CHOOSE i \in 1..Len(Alphabet) : Alphabet[i] = c

\* a.localeCompare(b) on lower-case ASCII names: negative, zero or positive
RECURSIVE LocaleCompare(_, _)
LocaleCompare(a, b) ==
  IF a = <<>> /\ b = <<>> THEN 0
  ELSE IF a = <<>> THEN -1
  ELSE IF b = <<>> THEN 1
  ELSE IF Rank(Head(a)) < Rank(Head(b)) THEN -1
  ELSE IF Rank(Head(a)) > Rank(Head(b)) THEN 1
  ELSE LocaleCompare(Tail(a), Tail(b))

\* response.data.results.map((p, index) => ({name, number: index + 1, url}))
\* (url is carried along and never read, so it is left out)
IndexOf(results) ==
  [i \in 1..Len(results) |-> [name |-> results[i], number |-> i]]

\* the summary built from GET {base}/pokemon/<name>: number is the
\* upstream id (image and types are copied through and left out)
SummaryOf(name) == [id |-> PokeId(name), name |-> name, number |-> PokeId(name)]

\* ------------------------------------------------------------ query engine

NormLimit(raw) == Min(OrDefault(ParseInt(raw), DefaultLimit), MaxLimit)
NormOffset(raw) == OrDefault(ParseInt(raw), 0)
\* req.query.search?.toLowerCase() || ''
NormSearch(raw) == IF raw.set THEN ToLowerCase(raw.s) ELSE <<>>
\* req.query.sortBy || 'number', req.query.sortOrder || 'asc'
\* (undefined and the empty string are both falsy)
NormSortBy(raw) == IF raw = NoSort THEN "number" ELSE raw
NormSortOrder(raw) == IF raw = NoSort THEN "asc" ELSE raw

NonEmpty(s) == Len(s) > 0
TrimLower(s) == ToLowerCase(Trim(s))

SearchTerms(search) ==
  LET parts == Split(search, ",")
  IN SelectSeq([i \in 1..Len(parts) |-> TrimLower(parts[i])], NonEmpty)

MatchesAny(name, terms) ==
  \E i \in 1..Len(terms) : Contains(Chars(name), terms[i])

Filtered(allPokemon, search) ==
  IF search # <<>> /\ Len(Trim(search)) > 0
  THEN LET terms == SearchTerms(search)
       IN SelectSeq(allPokemon, LAMBDA p : MatchesAny(p.name, terms))
  ELSE allPokemon

CompareValue(a, b, sortBy) ==
  IF sortBy = "name"
  THEN LocaleCompare(Chars(a.name), Chars(b.name))
  ELSE a.number - b.number

ListComparatorAscending(a, b, sortBy, sortOrder) == CompareValue(a, b, sortBy)

\* sortOrder === 'asc' ? compareValue : -compareValue
ListComparator(a, b, sortBy, sortOrder) ==
  IF sortOrder = "asc" THEN CompareValue(a, b, sortBy)
  ELSE 0 - CompareValue(a, b, sortBy)

\* Array.prototype.indexOf: the first position of x, from 0, or -1
FirstIndex(s, x) ==
  IF \E i \in 1..Len(s) : s[i] = x
  THEN (CHOOSE i \in 1..Len(s) : s[i] = x /\ \A j \in 1..(i - 1) : s[j] # x) - 1
  ELSE -1

\* the numbers taken one too high
IncludesOffByOne(s, x) == \E i \in 1..Len(s) : s[i] = x + 1

Includes(s, x) == \E i \in 1..Len(s) : s[i] = x

NumberComparatorAscending(a, b, searchNumbers) == a.number - b.number

\* searchNumbers.indexOf(a.number) - searchNumbers.indexOf(b.number)
NumberComparator(a, b, searchNumbers) ==
  FirstIndex(searchNumbers, a.number) - FirstIndex(searchNumbers, b.number)

\* the comparator handed to sort: `how` names the handler's order
Comparator(a, b, how) ==
  IF how.mode = "numbers" THEN NumberComparator(a, b, how.numbers)
  ELSE ListComparator(a, b, how.sortBy, how.sortOrder)

\* Array.prototype.sort is stable: x goes after every element it does not
\* come before.
RECURSIVE InsertSorted(_, _, _)
InsertSorted(sorted, x, how) ==
  IF sorted = <<>> THEN <<x>>
  ELSE IF Comparator(x, sorted[Len(sorted)], how) >= 0
       THEN Append(sorted, x)
       ELSE Append(InsertSorted(SubSeq(sorted, 1, Len(sorted) - 1), x, how),
                   sorted[Len(sorted)])

RECURSIVE Sort(_, _)
Sort(s, how) ==
  IF s = <<>> THEN <<>>
  ELSE InsertSorted(Sort(SubSeq(s, 1, Len(s) - 1), how), s[Len(s)], how)

Paginated(sorted, offset, limit) == Slice(sorted, offset, offset + limit)

HasNextInclusive(offset, limit, total) == offset + limit <= total

HasNext(offset, limit, total) == offset + limit < total
HasPrev(offset) == offset > 0

PageTotalOfWindow(filtered, paginated) == Len(paginated)

\* const total = filtered.length
PageTotal(filtered, paginated) == Len(filtered)

\* what the list handler computes between the index and the summary
\* fetches: the normalized parameters, the total and the page window
ListPage(allPokemon, q) ==
  LET limit == NormLimit(q.limit)
      offset == NormOffset(q.offset)
      filtered == Filtered(allPokemon, NormSearch(q.search))
      sorted == Sort(filtered, [mode |-> "list",
                                sortBy |-> NormSortBy(q.sortBy),
                                sortOrder |-> NormSortOrder(q.sortOrder)])
      paginated == Paginated(sorted, offset, limit)
  IN [early |-> FALSE, limit |-> limit, offset |-> offset,
      total |-> PageTotal(filtered, paginated), win |-> paginated]

\* the segments parsed and none filtered out (NaN read as 0)
SearchNumbersUnfiltered(numbers) ==
  LET parts == Split(numbers, ",")
  IN [i \in 1..Len(parts) |-> ParseIntStr(Trim(parts[i])).v]

\* numbers.split(',').map(n => parseInt(n.trim(), 10)).filter(n => !isNaN(n))
SearchNumbers(numbers) ==
  LET parts == Split(numbers, ",")
      parsed == SelectSeq([i \in 1..Len(parts) |-> ParseIntStr(Trim(parts[i]))],
                          LAMBDA n : ~n.nan)
  IN [i \in 1..Len(parsed) |-> parsed[i].v]

\* what the number-lookup handler computes between the index and the
\* summary fetches; early is its return when no entry matches
NumberPage(allPokemon, q) ==
  LET limit == NormLimit(q.limit)
      offset == NormOffset(q.offset)
      searchNumbers == SearchNumbers(q.numbers)
      filtered == SelectSeq(allPokemon,
                            LAMBDA p : Includes(searchNumbers, p.number))
      sorted == Sort(filtered, [mode |-> "numbers", numbers |-> searchNumbers])
      paginated == Paginated(sorted, offset, limit)
  IN IF Len(filtered) = 0
     THEN [early |-> TRUE, limit |-> limit, offset |-> offset,
           total |-> 0, win |-> <<>>]
     ELSE [early |-> FALSE, limit |-> limit, offset |-> offset,
           total |-> PageTotal(filtered, paginated), win |-> paginated]

PageOf(kind, allPokemon, q) ==
  IF kind = "number" THEN NumberPage(allPokemon, q) ELSE ListPage(allPokemon, q)

\* Array.prototype.sort sorts in place, and the array getCachedOrFetch
\* returns is the array held by the cache record. SortsCopy tells whether
\* `filtered` is an array of its own when the handler sorts it: filter()
\* returns a new array, and without a search the list handler spreads
\* allPokemon into one.
Searching(q) ==
  NormSearch(q.search) # <<>> /\ Len(Trim(NormSearch(q.search))) > 0
SortsIndexWithoutSearch(kind, q) == kind = "number" \/ Searching(q)
SortsCopy(kind, q) ==
  \/ kind = "number"
  \/ kind = "list" /\ Searching(q)
  \/ kind = "list" /\ ~Searching(q)

\* the array behind allPokemon once the handler has sorted `filtered`
AllPokemonAfterSort(kind, allPokemon, q) ==
  IF SortsCopy(kind, q) THEN allPokemon
  ELSE Sort(allPokemon, [mode |-> "list",
                         sortBy |-> NormSortBy(q.sortBy),
                         sortOrder |-> NormSortOrder(q.sortOrder)])

\* res.json({success: true, data: {results, pagination}})
OkResponse(page, results) ==
  [status |-> 200, success |-> TRUE, results |-> results,
   total |-> page.total, limit |-> page.limit, offset |-> page.offset,
   hasNext |-> IF page.early THEN FALSE
               ELSE HasNext(page.offset, page.limit, page.total),
   hasPrev |-> IF page.early THEN FALSE ELSE HasPrev(page.offset)]

\* an empty page answered where the handler answers 400
BadRequestAsEmptyPage(msg) ==
  [status |-> 200, success |-> TRUE, results |-> <<>>, total |-> 0,
   limit |-> DefaultLimit, offset |-> 0, hasNext |-> FALSE, hasPrev |-> FALSE]

\* res.status(400).json({success: false, error})
BadRequest(msg) == [status |-> 400, success |-> FALSE, error |-> msg]

\* the error handler with the JWT names tested before the response
ErrorResponseNamesFirst(err) ==
  IF err.name = "JsonWebTokenError"
  THEN [status |-> 401, success |-> FALSE, error |-> "Invalid token"]
  ELSE IF err.name = "TokenExpiredError"
  THEN [status |-> 401, success |-> FALSE, error |-> "Token expired"]
  ELSE IF err.response
  THEN [status |-> err.status, success |-> FALSE, error |-> "External API error",
        details |-> err.statusText]
  ELSE [status |-> 500, success |-> FALSE, error |-> "Internal server error"]

\* errorHandler(err): an error that carries an upstream response is answered
\* with the upstream's status and status text, else one of the two JWT
\* names with 401, any other with 500
ErrorResponse(err) ==
  IF err.response
  THEN [status |-> err.status, success |-> FALSE, error |-> "External API error",
        details |-> err.statusText]
  ELSE IF err.name = "JsonWebTokenError"
  THEN [status |-> 401, success |-> FALSE, error |-> "Invalid token"]
  ELSE IF err.name = "TokenExpiredError"
  THEN [status |-> 401, success |-> FALSE, error |-> "Token expired"]
  ELSE [status |-> 500, success |-> FALSE, error |-> "Internal server error"]

\* ------------------------------------------------------------- the cache

\* JavaScript values as the cache sees them
Arr(v) == [t |-> "array", v |-> v]
Obj(v) == [t |-> "object", v |-> v]
Null == [t |-> "null", v |-> <<>>]
Undefined == [t |-> "undefined", v |-> <<>>]
JsNum(n) == [t |-> "number", v |-> n]
JsStr(str) == [t |-> "string", v |-> str]
JsBool(b) == [t |-> "boolean", v |-> b]

IsArray(d) == d.t = "array"

Truthy(d) ==
  CASE d.t \in {"null", "undefined"} -> FALSE
    [] d.t = "number" -> d.v # 0
    [] d.t = "string" -> d.v # <<>>
    [] d.t = "boolean" -> d.v
    [] OTHER -> TRUE

AllKey == <<"all-pokemon">>
\* summaries kept under the per-id keys of the detail endpoint
SummaryKeyByNumber(name) ==
  <<"pokemon-detail-",
    CASE name = "bulbasaur" -> "1" [] name = "ivysaur" -> "2"
      [] name = "charmander" -> "4">>

SummaryKey(name) == <<"pokemon-", name>>

\* the upstream URLs the handlers request, below POKEAPI_BASE
ListingUrl == <<"pokemon?limit=1500">>
SummaryUrl(name) == <<"pokemon/", name>>
PokemonUrl(id) == <<"pokemon/">> \o id
SpeciesUrl(id) == <<"pokemon-species/">> \o id

\* cache.get(key): undefined (NoRec) for a key never set
NoRec == [absent |-> TRUE]
Get(c, key) == IF key \in DOMAIN c THEN c[key] ELSE NoRec

FreshInclusive(cached, t) == cached # NoRec /\ t - cached.timestamp <= CACHE_TTL

FreshReversed(cached, t) == cached # NoRec /\ t - cached.timestamp > CACHE_TTL

\* cached && Date.now() - cached.timestamp < CACHE_TTL
Fresh(cached, t) == cached # NoRec /\ t - cached.timestamp < CACHE_TTL

ShouldCacheArraysOnly(data) == IsArray(data) /\ Len(data.v) > 0

\* data && (Array.isArray(data) ? data.length > 0 : true)
ShouldCache(data) ==
  Truthy(data) /\ (IF IsArray(data) THEN Len(data.v) > 0 ELSE TRUE)

StoredOnlyIfAbsent(c, key, data, t) ==
  IF ShouldCache(data) /\ key \notin DOMAIN c
  THEN [k \in DOMAIN c \cup {key} |->
          IF k = key THEN [data |-> data, timestamp |-> t] ELSE c[k]]
  ELSE c

\* a valid record is kept and the fetched value dropped
StoredUnlessFresh(c, key, data, t) ==
  IF ShouldCache(data) /\ ~Fresh(Get(c, key), t)
  THEN [k \in DOMAIN c \cup {key} |->
          IF k = key THEN [data |-> data, timestamp |-> t] ELSE c[k]]
  ELSE c

\* the cache after getCachedOrFetch's fetch has returned data at time t
Stored(c, key, data, t) ==
  IF ShouldCache(data)
  THEN [k \in DOMAIN c \cup {key} |->
          IF k = key THEN [data |-> data, timestamp |-> t] ELSE c[k]]
  ELSE c


\* a failed fetch empties the cache
RejectedClearsCache(c, key) == <<>>

RejectedDropsRecord(c, key) == [k \in DOMAIN c \ {key} |-> c[k]]

\* the cache after getCachedOrFetch's fetch has thrown: `await fetchFn()`
\* rejects and the lines behind it do not run
Rejected(c, key) == c

\* ------------------------------------------------------------------ state

VARIABLES
  now,      \* Date.now(), in milliseconds
  listing,  \* what the upstream listing endpoint returns: a sequence of names
  cache,    \* the Map of pokemon.js: key -> {data, timestamp}, or NoRec
  req,      \* the requests being handled: slot -> the handler's position and locals
  lastOk,   \* history: the latest successful list response and the records it used
  ev        \* history: the step just taken and the getCachedOrFetch calls it began

vars == <<now, listing, cache, req, lastOk, ev>>

Slots == 1..MaxReq

\* the instants the clock can show: around every multiple of the TTL
Instants ==
  {t \in {k * CACHE_TTL + d : k \in 0..MaxWindows, d \in {-1, 0}} : t >= 0}

\* upstream listings (the empty one is the listing of
\* 'should return empty results for non-existent numbers')
Listings ==
  { <<>>, <<"bulbasaur", "charmander">>, <<"charmander">> }

\* upstream failures: no response at all (network), or an HTTP error status
\* (err.response.status and err.response.statusText are kept flat; an
\* error without a response has status 0 and no status text)
StatusText(status) ==
  CASE status = 404 -> "Not Found"
    [] status = 503 -> "Service Unavailable"
    [] OTHER -> ""
NetworkError ==
  [response |-> FALSE, status |-> 0, statusText |-> "", name |-> "Error"]
HttpError(status) ==
  [response |-> TRUE, status |-> status, statusText |-> StatusText(status),
   name |-> "AxiosError"]
Errors == {NetworkError, HttpError(503)}

ListQuery(limit, offset, search, sortBy, sortOrder) ==
  [limit |-> limit, offset |-> offset, search |-> search,
   sortBy |-> sortBy, sortOrder |-> sortOrder]
NumberQuery(numbers, limit, offset) ==
  [numbers |-> numbers, limit |-> limit, offset |-> offset]

\* A request: pc is the handler's position; cached is the record the index
\* call read (`cached` of getCachedOrFetch), snap the listing its upstream
\* call returns, seen the records the summary calls read, got the summaries
\* joined so far, pend the window positions whose fetch is in flight.
\* History kept with it: t0 its arrival time, prev the latest successful
\* list response at its arrival, nIdx the listing calls it has made, upOk
\* whether an upstream call of it has succeeded, used the records its
\* results were read from or stored in. A detail request keeps in pokemon
\* and species the responses of its upstream calls and in err the error
\* that left fetchFn. up is the history of the upstream URLs the request
\* has called, in call order. auth is the request's Authorization header and user
\* is req.user, the decoded token authMiddleware leaves on the request.
\* sent counts the responses a handler of the auth routes has sent.
Idle ==
  [pc |-> "idle", kind |-> "none", q |-> <<>>, t0 |-> 0, idx |-> "none",
   cached |-> <<>>, snap |-> <<>>, page |-> <<>>, seen |-> <<>>, got |-> <<>>,
   pend |-> {}, resp |-> <<>>,
   prev |-> <<>>, nIdx |-> 0, upOk |-> FALSE, used |-> <<>>,
   pokemon |-> <<>>, species |-> <<>>, err |-> <<>>,
   auth |-> <<>>, user |-> <<>>, up |-> <<>>, sent |-> 0]

NoOk == [none |-> TRUE]
NoEvent == [op |-> "init", r |-> 0, key |-> <<>>, calls |-> {}]

Event(op, r, key, calls) == [op |-> op, r |-> r, key |-> key, calls |-> calls]

\* one getCachedOrFetch(key, fetchFn) call as it begins at time t: the
\* record it reads and whether it returns the stored data (hit) or awaits
\* fetchFn
Call(c, key, t) ==
  [key |-> key, rec |-> Get(c, key), at |-> t, hit |-> Fresh(Get(c, key), t)]

Results(got) == [i \in 1..Len(got) |-> got[i].v]

\* the handler from the index to the first await behind it: the page is
\* computed and Promise.all starts one getCachedOrFetch per window entry;
\* the ones that hit are resolved, and with none pending the response is sent
WindowKey(page, i) == SummaryKey(page.win[i].name)

\* the window entries whose summary record is valid at t
Hits(page, c, t) ==
  {i \in 1..Len(page.win) : Fresh(Get(c, WindowKey(page, i)), t)}

\* the URLs of the window entries that miss, in window order
MissUrls(page, hits) ==
  LET miss == SelectSeq([i \in 1..Len(page.win) |-> i], LAMBDA i : i \notin hits)
  IN [k \in 1..Len(miss) |-> SummaryUrl(page.win[miss[k]].name)]

Awaiting(rq, page, hits, c) ==
  [rq EXCEPT
     !.page = page,
     !.up = @ \o MissUrls(page, hits),
     !.seen = [i \in 1..Len(page.win) |-> Get(c, WindowKey(page, i))],
     !.got = [i \in 1..Len(page.win) |->
                IF i \in hits THEN c[WindowKey(page, i)].data ELSE Undefined],
     !.pend = (1..Len(page.win)) \ hits,
     !.used = [k \in DOMAIN rq.used \cup {WindowKey(page, i) : i \in hits} |->
                 IF k \in DOMAIN rq.used THEN rq.used[k] ELSE c[k]],
     !.pc = "awaitSummaries"]

Responded(rq) ==
  IF rq.pend = {}
  THEN [rq EXCEPT !.pc = "done", !.resp = OkResponse(rq.page, Results(rq.got))]
  ELSE rq

PageStarted(rq, page, c, t) == Responded(Awaiting(rq, page, Hits(page, c, t), c))

AfterIndex(rq, allPokemon, c, t) ==
  PageStarted(rq, PageOf(rq.kind, allPokemon, rq.q), c, t)

WindowCalls(page, c, t) ==
  {Call(c, WindowKey(page, i), t) : i \in 1..Len(page.win)}

SummaryCalls(rq, allPokemon, c, t) ==
  WindowCalls(PageOf(rq.kind, allPokemon, rq.q), c, t)

\* the history of successful list responses
Remember(old, rq) ==
  IF rq.pc = "done" /\ rq.kind = "list" /\ rq.resp.status = 200
  THEN [q |-> rq.q, results |-> rq.resp.results, used |-> rq.used, at |-> now]
  ELSE old

TypeOK ==
  /\ now \in Instants
  /\ \A i \in 1..Len(listing) : listing[i] \in Names
  /\ \A k \in DOMAIN cache : cache[k].timestamp \in Instants
  /\ DOMAIN req = Slots

Init ==
  /\ now = 0
  /\ listing \in Listings
  /\ cache = <<>>
  /\ req = [r \in Slots |-> Idle]
  /\ lastOk = NoOk
  /\ ev = NoEvent

IndexRetried(rq, err) == [rq EXCEPT !.nIdx = @ + 1]

\* the handler's catch after the listing call has failed: next(error), and
\* the error handler answers
IndexFailed(rq, err) ==
  [rq EXCEPT !.pc = "done", !.err = err, !.resp = ErrorResponse(err)]

\* ---------------------------------------------------------------- actions

\* a request that authMiddleware has let through, as `from`, enters its
\* handler and runs to its first pending await
ArriveFrom(r, kind, q, from) ==
  /\ req[r].pc = "idle"
  /\ LET rq == [from EXCEPT !.kind = kind, !.q = q, !.t0 = now, !.prev = lastOk]
         call == Call(cache, AllKey, now)
         next ==
           IF kind = "number" /\ Len(SearchNumbers(q.numbers)) = 0
           THEN [rq EXCEPT !.pc = "done",
                           !.resp = BadRequest("At least one valid number is required")]
           ELSE IF call.hit
           THEN AfterIndex([rq EXCEPT !.idx = "hit", !.cached = call.rec,
                                      !.used = (AllKey :> cache[AllKey])],
                           cache[AllKey].data.v, cache, now)
           ELSE [rq EXCEPT !.pc = "awaitIndex", !.idx = "miss",
                           !.cached = call.rec, !.snap = listing, !.nIdx = 1,
                           !.up = <<ListingUrl>>]
         calls ==
           IF kind = "number" /\ Len(SearchNumbers(q.numbers)) = 0 THEN {}
           ELSE IF call.hit
           THEN {call} \cup SummaryCalls(rq, cache[AllKey].data.v, cache, now)
           ELSE {call}
     IN /\ req' = [req EXCEPT ![r] = next]
        /\ lastOk' = Remember(lastOk, next)
        /\ ev' = Event("arrive", r, AllKey, calls)
        /\ cache' = IF next.idx = "hit"
                    THEN [cache EXCEPT ![AllKey].data =
                            Arr(AllPokemonAfterSort(kind, cache[AllKey].data.v, q))]
                    ELSE cache
  /\ UNCHANGED <<now, listing>>

\* a request enters its handler and runs to its first pending await
Arrive(r, kind, q) == ArriveFrom(r, kind, q, Idle)

\* the upstream listing call of r answers: fetchFn maps it to the index,
\* getCachedOrFetch stores it (if it should) and the handler goes on
IndexReplyOk(r) ==
  /\ req[r].pc = "awaitIndex"
  /\ LET data == Arr(IndexOf(req[r].snap))
         c2 == Stored(cache, AllKey, data, now)
         rq == [req[r] EXCEPT !.upOk = TRUE,
                              !.used = (AllKey :> IF ShouldCache(data)
                                                  THEN c2[AllKey] ELSE NoRec)]
         next == AfterIndex(rq, data.v, c2, now)
     IN /\ cache' = IF ShouldCache(data) /\ c2[AllKey].data = data
                    THEN [c2 EXCEPT ![AllKey].data =
                            Arr(AllPokemonAfterSort(rq.kind, data.v, rq.q))]
                    ELSE c2
        /\ req' = [req EXCEPT ![r] = next]
        /\ lastOk' = Remember(lastOk, next)
        /\ ev' = Event("indexOk", r, AllKey, SummaryCalls(rq, data.v, c2, now))
  /\ UNCHANGED <<now, listing>>

\* the upstream listing call of r fails: the rejection leaves
\* getCachedOrFetch (nothing is stored) and the handler, and reaches
\* next(error)
IndexReplyFail(r, err) ==
  /\ req[r].pc = "awaitIndex"
  /\ req' = [req EXCEPT ![r] = IndexFailed(@, err)]
  /\ cache' = Rejected(cache, AllKey)
  /\ ev' = Event("indexFail", r, AllKey, {})
  /\ UNCHANGED <<now, listing, lastOk>>

JoinedInCompletionOrder(got, i, data) ==
  LET free == {k \in 1..Len(got) : got[k].t = "undefined"}
  IN IF free = {} THEN got
     ELSE [got EXCEPT ![CHOOSE k \in free : \A j \in free : k <= j] = data]

\* Promise.all: the value of the i-th promise is the i-th element
Joined(got, i, data) == [got EXCEPT ![i] = data]

\* the summary fetch of window entry i answers: stored, and joined into
\* position i; Promise.all resolves with the last one unless it has
\* rejected already
SummaryReplyOk(r, i) ==
  /\ req[r].pc \in {"awaitSummaries", "done"}
  /\ i \in req[r].pend
  /\ LET rq == req[r]
         key == SummaryKey(rq.page.win[i].name)
         data == Obj(SummaryOf(rq.page.win[i].name))
         c2 == Stored(cache, key, data, now)
         got == Joined(rq.got, i, data)
         pend == rq.pend \ {i}
         used == [k \in DOMAIN rq.used \cup {key} |->
                    IF k = key THEN c2[key] ELSE rq.used[k]]
         next ==
           IF rq.pc = "awaitSummaries" /\ pend = {}
           THEN [rq EXCEPT !.got = got, !.pend = pend, !.used = used,
                           !.upOk = TRUE, !.pc = "done",
                           !.resp = OkResponse(rq.page, Results(got))]
           ELSE [rq EXCEPT !.got = got, !.pend = pend, !.used = used,
                           !.upOk = TRUE]
     IN /\ cache' = c2
        /\ req' = [req EXCEPT ![r] = next]
        /\ lastOk' = IF rq.pc = "awaitSummaries" THEN Remember(lastOk, next)
                     ELSE lastOk
        /\ ev' = Event("summaryOk", r, key, {})
  /\ UNCHANGED <<now, listing>>

\* the summary fetch of window entry i fails: Promise.all rejects with the
\* first failure and the handler answers through next(error); the other
\* fetches of the window stay in flight
SummaryReplyFail(r, i, err) ==
  /\ req[r].pc \in {"awaitSummaries", "done"}
  /\ i \in req[r].pend
  /\ LET rq == req[r]
         next ==
           IF rq.pc = "awaitSummaries"
           THEN [rq EXCEPT !.pend = @ \ {i}, !.pc = "done", !.err = err,
                           !.resp = ErrorResponse(err)]
           ELSE [rq EXCEPT !.pend = @ \ {i}]
     IN /\ req' = [req EXCEPT ![r] = next]
        /\ cache' = Rejected(cache, SummaryKey(rq.page.win[i].name))
        /\ ev' = Event("summaryFail", r, SummaryKey(rq.page.win[i].name), {})
  /\ UNCHANGED <<now, listing, lastOk>>

\* the response has gone out and nothing of the request is in flight
Finish(r) ==
  /\ req[r].pc = "done"
  /\ req[r].pend = {}
  /\ req' = [req EXCEPT ![r] = Idle]
  /\ ev' = Event("finish", r, <<>>, {})
  /\ UNCHANGED <<now, listing, cache, lastOk>>

\* time passes
Tick(t) ==
  /\ t > now
  /\ now' = t
  /\ ev' = Event("tick", 0, <<>>, {})
  /\ UNCHANGED <<listing, cache, req, lastOk>>

\* the upstream catalog changes its listing
UpstreamChange(l) ==
  /\ l # listing
  /\ listing' = l
  /\ ev' = Event("change", 0, <<>>, {})
  /\ UNCHANGED <<now, cache, req, lastOk>>

\* the requests of the concurrent runs
ListQueries == {ListQuery(Missing, Missing, Missing, NoSort, NoSort)}
NumberQueries == {NumberQuery(<<"2", ",", "1">>, Missing, Missing)}

\* one request at a time, while the clock runs and the upstream changes
NextSeq ==
  \/ \E q \in ListQueries : Arrive(1, "list", q)
  \/ \E q \in NumberQueries : Arrive(1, "number", q)
  \/ IndexReplyOk(1)
  \/ \E err \in Errors : IndexReplyFail(1, err)
  \/ \E i \in 1..Cardinality(Names) : SummaryReplyOk(1, i)
  \/ \E i \in 1..Cardinality(Names), err \in Errors : SummaryReplyFail(1, i, err)
  \/ Finish(1)
  \/ \E t \in Instants : Tick(t)
  \/ \E l \in Listings : UpstreamChange(l)

SpecSeq == Init /\ [][NextSeq]_vars

\* concurrent requests at one instant: with nothing cached yet, or a TTL
\* after a number lookup has left its index in the cache
InitConc ==
  \/ Init
  \/ /\ now = CACHE_TTL
     /\ listing \in Listings
     /\ \E l \in Listings \ {<<>>} :
          cache = (AllKey :> [data |-> Arr(IndexOf(l)), timestamp |-> 0])
     /\ req = [r \in Slots |-> Idle]
     /\ lastOk = NoOk
     /\ ev = NoEvent

NextConc ==
  \/ \E r \in Slots, q \in ListQueries : Arrive(r, "list", q)
  \/ \E r \in Slots, q \in NumberQueries : Arrive(r, "number", q)
  \/ \E r \in Slots : IndexReplyOk(r)
  \/ \E r \in Slots : IndexReplyFail(r, NetworkError)
  \/ \E r \in Slots, i \in 1..Cardinality(Names) : SummaryReplyOk(r, i)
  \/ \E r \in Slots, i \in 1..Cardinality(Names) :
       SummaryReplyFail(r, i, NetworkError)
  \/ \E r \in Slots : Finish(r)
  \/ \E l \in Listings : UpstreamChange(l)

SpecConc == InitConc /\ [][NextConc]_vars

\* one request of any shape against a cold cache, every upstream call
\* answering: the inputs of the query engine
Limits ==
  {Missing, Given(<<"1">>), Given(<<"2">>), Given(<<"0">>), Given(<<"-", "1">>),
   Given(<<"1", "0", "1">>), Given(<<"a">>)}
Offsets ==
  {Missing, Given(<<"1">>), Given(<<"3">>), Given(<<"5">>), Given(<<"-", "2">>)}
Searches ==
  {Missing, Given(<<"c", "h", "a", "r">>), Given(<<"C", "H", "A", "R">>),
   Given(<<",">>), Given(<<" ">>), Given(<<"x">>),
   Given(<<"s", "a", "u", "r", ",", " ", "c", "h">>)}
SortBys == {NoSort, "name", "number", "foo"}
SortOrders == {NoSort, "asc", "desc", "foo"}
NumberPaths ==
  {<<"4">>, <<"0", "0", "2">>, <<"3", ",", "1">>, <<"1", ",", "1", ",", "2">>,
   <<"x">>, <<"9">>, <<" ", "2", " ", ",", "x">>,
   <<"i", "n", "v", "a", "l", "i", "d">>, <<"a", ",", ",", "-">>}
QueryListings ==
  { <<>>, <<"bulbasaur", "ivysaur", "charmander">>, <<"charmander", "bulbasaur">> }

AnyListQuery ==
  {ListQuery(l, o, s, sb, so) :
     l \in Limits, o \in Offsets, s \in Searches, sb \in SortBys, so \in SortOrders}
AnyNumberQuery ==
  {NumberQuery(n, l, o) : n \in NumberPaths, l \in Limits, o \in Offsets}

InitQuery ==
  /\ now = 0
  /\ listing \in QueryListings
  /\ cache = <<>>
  /\ req = [r \in Slots |-> Idle]
  /\ lastOk = NoOk
  /\ ev = NoEvent

NextQuery ==
  \/ \E q \in AnyListQuery : Arrive(1, "list", q)
  \/ \E q \in AnyNumberQuery : Arrive(1, "number", q)
  \/ IndexReplyOk(1)
  \/ \E i \in 1..Cardinality(Names) : SummaryReplyOk(1, i)

SpecQuery == InitQuery /\ [][NextQuery]_vars

\* requests of every sort order, with and without a search and a page
\* window, one after the other against the same cache while the clock and
\* the upstream listing move
FrameQueries ==
  {ListQuery(Missing, o, s, sort[1], sort[2]) :
     o \in {Missing, Given(<<"1">>)},
     s \in {Missing, Given(<<"c", "h", "a", "r">>)},
     sort \in {<<NoSort, NoSort>>, <<"name", "desc">>}}
FrameLookups == {NumberQuery(<<"2", ",", "1">>, Given(<<"1">>), Missing)}
FrameListings == {<<"bulbasaur", "ivysaur", "charmander">>, <<"charmander", "bulbasaur">>}

NextFrame ==
  \/ \E q \in FrameQueries : Arrive(1, "list", q)
  \/ \E q \in FrameLookups : Arrive(1, "number", q)
  \/ IndexReplyOk(1)
  \/ \E i \in 1..Cardinality(Names) : SummaryReplyOk(1, i)
  \/ Finish(1)
  \/ \E t \in Instants : Tick(t)
  \/ \E l \in FrameListings : UpstreamChange(l)

InitFrame ==
  /\ now = 0
  /\ listing \in FrameListings
  /\ cache = <<>>
  /\ req = [r \in Slots |-> Idle]
  /\ lastOk = NoOk
  /\ ev = NoEvent

SpecFrame == InitFrame /\ [][NextFrame]_vars

\* two list requests side by side while the clock and the upstream listing
\* move: their fetches for one key start and complete in any order
RaceListings == { <<>>, <<"bulbasaur">>, <<"charmander">> }

NextRace ==
  \/ \E r \in {1, 2}, q \in ListQueries : Arrive(r, "list", q)
  \/ \E r \in {1, 2} : IndexReplyOk(r)
  \/ \E r \in {1, 2}, i \in 1..Cardinality(Names) : SummaryReplyOk(r, i)
  \/ \E r \in {1, 2} : Finish(r)
  \/ \E t \in Instants : Tick(t)
  \/ \E l \in RaceListings : UpstreamChange(l)

InitRace ==
  /\ now = 0
  /\ listing \in RaceListings
  /\ cache = <<>>
  /\ req = [r \in Slots |-> Idle]
  /\ lastOk = NoOk
  /\ ev = NoEvent

SpecRace == InitRace /\ [][NextRace]_vars

\* two number lookups side by side against one upstream listing, written
\* with and without leading zeros
PaddedPaths == {<<"0", "0", "2">>, <<"0", "3", ",", "0", "0", "1">>}
PlainPaths == {<<"2">>, <<"3", ",", "1">>}
PairQueries ==
  {NumberQuery(n, l, o) :
     n \in PaddedPaths \cup PlainPaths,
     l \in {Missing, Given(<<"1">>)}, o \in {Missing, Given(<<"1">>)}}

NextPair ==
  \/ \E q \in PairQueries : Arrive(1, "number", q) \/ Arrive(2, "number", q)
  \/ \E r \in {1, 2} : IndexReplyOk(r)
  \/ \E r \in {1, 2}, i \in 1..Cardinality(Names) : SummaryReplyOk(r, i)

SpecPair == InitQuery /\ [][NextPair]_vars

\* ------------------------------------------------- the detail handler
\* GET /api/pokemons/:id. Of the primary record only id, name and
\* species.url are modelled, of the result only the fields that come from
\* the species record.

DetailKey(id) == <<"pokemon-detail-">> \o id

\* !id || isNaN(parseInt(id))
InvalidId(id) == id = <<>> \/ ParseIntStr(id).nan

FormFeed == "FF"

\* flavor_text.replace(/\f/g, ' ')
ReplaceFormFeed(text) ==
  [i \in 1..Len(text) |-> IF text[i] = FormFeed THEN " " ELSE text[i]]

\* `x || dflt` for a string x: undefined (a link of the ?. chain missing)
\* and '' are both the empty value here
OrText(x, dflt) == IF x = "" THEN dflt ELSE x

NoSpecies == [none |-> TRUE]

SentinelFields ==
  [forms |-> <<>>, description |-> <<"No description available">>,
   genus |-> "Unknown", habitat |-> "Unknown", generation |-> "Unknown"]

SpeciesFieldsIgnored(data) == SentinelFields

\* the fields of the result taken from species.data
SpeciesFields(data) ==
  [forms |-> IF data.varieties.set THEN data.varieties.v ELSE <<>>,
   description |-> IF data.flavor = <<>> THEN <<"No description available">>
                   ELSE ReplaceFormFeed(data.flavor),
   genus |-> OrText(data.genus, "Unknown"),
   habitat |-> OrText(data.habitat, "Unknown"),
   generation |-> OrText(data.generation, "Unknown")]

\* the object fetchFn returns: species is NoSpecies (null) or the response
\* of one of the two species calls
DetailResult(pokemon, species) ==
  [id |-> pokemon.id, name |-> pokemon.name, number |-> pokemon.id,
   fields |-> IF species = NoSpecies THEN SentinelFields
              ELSE SpeciesFields(species.data)]

\* res.json({success: true, data: pokemonData})
DetailResponse(data) == [status |-> 200, success |-> TRUE, data |-> data]

\* the handler's catch: 404 for an error that carries an upstream 404,
\* next(error) for any other
DetailFailed(err) ==
  IF err.response /\ err.status = 404
  THEN [status |-> 404, success |-> FALSE, error |-> "Pokemon not found"]
  ELSE ErrorResponse(err)

\* what the upstream may answer
Varieties(v) == [set |-> TRUE, v |-> v]
NoVarieties == [set |-> FALSE, v |-> <<>>]
SpeciesAtId ==
  [varieties |-> Varieties(<<[name |-> "pikachu-gmax", isDefault |-> FALSE]>>),
   flavor |-> <<"g", FormFeed, "m">>, genus |-> "Gigantamax",
   habitat |-> "cave", generation |-> "generation-viii"]
SpeciesAtUrl ==
  [varieties |-> Varieties(<<[name |-> "pikachu", isDefault |-> TRUE]>>),
   flavor |-> <<"a", FormFeed, "b">>, genus |-> "Mouse",
   habitat |-> "forest", generation |-> "generation-i"]
SpeciesSparse ==
  [varieties |-> NoVarieties, flavor |-> <<>>, genus |-> "", habitat |-> "",
   generation |-> "generation-i"]

DetailIds ==
  {<<"2", "5">>, <<"1", "0", "0", "2", "6">>, <<"a">>, <<"0">>, <<"-", "1">>,
   <<"4", "a", "b", "c">>}

\* the ids the upstream has a primary record for, with the record
Primary(id, url) ==
  [id |-> ParseIntStr(id).v,
   name |-> IF id = <<"2", "5">> THEN "pikachu" ELSE "pikachu-gmax",
   species |-> [url |-> url]]
\* pokemon.data.species.url: the species of pikachu and of its forms
SpeciesRef(pokemon) == <<"pokemon-species/", "2", "5", "/">>
Known(id) == id \in {<<"2", "5">>, <<"1", "0", "0", "2", "6">>}
DetailErrors == {NetworkError, HttpError(404), HttpError(503)}

\* a detail request enters its handler: 400 for an invalid id, else
\* getCachedOrFetch answers from the cache or fetchFn begins with the
\* primary call
DetailArriveFrom(r, id, from) ==
  /\ req[r].pc = "idle"
  /\ LET rq == [from EXCEPT !.kind = "detail", !.q = id, !.t0 = now]
         call == Call(cache, DetailKey(id), now)
     IN IF InvalidId(id)
        THEN /\ req' = [req EXCEPT ![r] =
                          [rq EXCEPT !.pc = "done",
                                     !.resp = BadRequest("Valid Pokemon ID is required")]]
             /\ ev' = Event("detailArrive", r, DetailKey(id), {})
        ELSE /\ req' = [req EXCEPT ![r] =
                          IF call.hit
                          THEN [rq EXCEPT !.pc = "done", !.idx = "hit",
                                          !.cached = call.rec,
                                          !.resp = DetailResponse(call.rec.data.v)]
                          ELSE [rq EXCEPT !.pc = "awaitPokemon", !.idx = "miss",
                                          !.cached = call.rec,
                                          !.up = <<PokemonUrl(id)>>]]
             /\ ev' = Event("detailArrive", r, DetailKey(id), {call})
  /\ UNCHANGED <<now, listing, cache, lastOk>>

DetailArrive(r, id) == DetailArriveFrom(r, id, Idle)

\* fetchFn has its result: getCachedOrFetch stores it and the handler answers
DetailFetched(r, species, op) ==
  LET data == Obj(DetailResult(req[r].pokemon, species))
  IN /\ cache' = Stored(cache, DetailKey(req[r].q), data, now)
     /\ req' = [req EXCEPT ![r].pc = "done", ![r].species = species,
                           ![r].resp = DetailResponse(data.v)]
     /\ ev' = Event(op, r, DetailKey(req[r].q), {})
     /\ UNCHANGED <<now, listing, lastOk>>

\* fetchFn rejects with err: nothing is stored and the catch answers
DetailRejected(r, err, op) ==
  /\ cache' = Rejected(cache, DetailKey(req[r].q))
  /\ req' = [req EXCEPT ![r].pc = "done", ![r].err = err,
                        ![r].resp = DetailFailed(err)]
  /\ ev' = Event(op, r, DetailKey(req[r].q), {})
  /\ UNCHANGED <<now, listing, lastOk>>

\* axios.get(pokemon/${id}) answers; the species call at the id begins
PokemonReplyOk(r, url) ==
  /\ req[r].pc = "awaitPokemon"
  /\ Known(req[r].q)
  /\ req' = [req EXCEPT ![r].pc = "awaitSpecies", ![r].upOk = TRUE,
                        ![r].pokemon = Primary(req[r].q, url),
                        ![r].up = Append(@, SpeciesUrl(req[r].q))]
  /\ ev' = Event("pokemonOk", r, DetailKey(req[r].q), {})
  /\ UNCHANGED <<now, listing, cache, lastOk>>

PokemonReplyFail(r, err) ==
  /\ req[r].pc = "awaitPokemon"
  /\ DetailRejected(r, err, "pokemonFail")

\* axios.get(pokemon-species/${id}) answers
SpeciesReplyOk(r, data) ==
  /\ req[r].pc = "awaitSpecies"
  /\ DetailFetched(r, [data |-> data], "speciesOk")

\* it fails: the catch follows pokemon.data.species?.url if there is one,
\* else species stays null
SpeciesReplyFail(r, err) ==
  /\ req[r].pc = "awaitSpecies"
  /\ IF req[r].pokemon.species.url
     THEN /\ req' = [req EXCEPT ![r].pc = "awaitRedirect",
                                ![r].up = Append(@, SpeciesRef(req[r].pokemon))]
          /\ ev' = Event("speciesFail", r, DetailKey(req[r].q), {})
          /\ UNCHANGED <<now, listing, cache, lastOk>>
     ELSE DetailFetched(r, NoSpecies, "speciesFail")

\* axios.get(pokemon.data.species.url) answers
RedirectReplyOk(r, data) ==
  /\ req[r].pc = "awaitRedirect"
  /\ DetailFetched(r, [data |-> data], "redirectOk")

\* it fails inside the catch block: the error leaves fetchFn
RedirectReplyFail(r, err) ==
  /\ req[r].pc = "awaitRedirect"
  /\ DetailRejected(r, err, "redirectFail")

NextDetail ==
  \/ \E id \in DetailIds : DetailArrive(1, id)
  \/ \E url \in BOOLEAN : PokemonReplyOk(1, url)
  \/ \E err \in DetailErrors : PokemonReplyFail(1, err)
  \/ \E data \in {SpeciesAtId, SpeciesSparse} : SpeciesReplyOk(1, data)
  \/ \E err \in DetailErrors : SpeciesReplyFail(1, err)
  \/ \E data \in {SpeciesAtUrl, SpeciesSparse} : RedirectReplyOk(1, data)
  \/ \E err \in DetailErrors : RedirectReplyFail(1, err)
  \/ Finish(1)

InitDetail == Init /\ listing = <<>>

SpecDetail == InitDetail /\ [][NextDetail]_vars

\* the three endpoints side by side on one cache: list, number-lookup and
\* detail requests for the entry of one upstream listing and for pikachu
ShareIds == {<<"4">>, <<"2", "5">>}

NextShare ==
  \/ \E r \in {1, 2}, q \in ListQueries : Arrive(r, "list", q)
  \/ \E r \in {1, 2}, q \in NumberQueries : Arrive(r, "number", q)
  \/ \E r \in {1, 2}, id \in ShareIds : DetailArrive(r, id)
  \/ \E r \in {1, 2} : IndexReplyOk(r)
  \/ \E r \in {1, 2}, i \in 1..Cardinality(Names) : SummaryReplyOk(r, i)
  \/ \E r \in {1, 2} : PokemonReplyOk(r, TRUE)
  \/ \E r \in {1, 2} : PokemonReplyFail(r, HttpError(404))
  \/ \E r \in {1, 2} : SpeciesReplyOk(r, SpeciesAtId)
  \/ \E r \in {1, 2} : Finish(r)
  \/ \E t \in Instants : Tick(t)

InitShare == Init /\ listing = <<"charmander">>

SpecShare == InitShare /\ [][NextShare]_vars

\* ------------------------------------------------- the authentication gate

Bearer == <<"B", "e", "a", "r", "e", "r", " ">>

StartsWith(s, prefix) ==
  Len(s) >= Len(prefix) /\ SubSeq(s, 1, Len(prefix)) = prefix

\* jsonwebtoken. A signed token has the three parts of a JWT: the
\* algorithm, the payload and the key of its signature. The clock of a
\* token counts seconds: floor(Date.now() / 1000).
JWT_SECRET == "pokemon-secret-key-2024"
TokenTTL == 24 * 60 * 60
ClockTimestamp(t) == t \div 1000

\* jwt.sign(payload, JWT_SECRET, {expiresIn: '24h'}) at time t
Sign(payload, t) ==
  <<"HS256",
    [username |-> payload.username, loginTime |-> payload.loginTime,
     iat |-> ClockTimestamp(t), exp |-> ClockTimestamp(t) + TokenTTL],
    JWT_SECRET>>

IsSigned(token) ==
  /\ Len(token) = 3
  /\ token[1] = "HS256"
  /\ token[3] = JWT_SECRET

TokenExpired(token, t) == ClockTimestamp(t) >= token[2].exp

\* jwt.verify(token, JWT_SECRET): the decoded token, or it throws.
\* ValidTokens are tokens signed with the key that carry no exp claim.
ValidTokens == {<<"o", "k">>}
Decoded(token) ==
  IF IsSigned(token) THEN token[2] ELSE [username |-> "admin"]
VerifyRevokedAfterLogout(token) ==
  IF IsSigned(token) /\ ~TokenExpired(token, now) /\ ~lastOk.loggedOut
  THEN [threw |-> FALSE, decoded |-> Decoded(token)]
  ELSE [threw |-> TRUE, decoded |-> <<>>]
Verify(token) ==
  IF IsSigned(token)
  THEN IF TokenExpired(token, now)
       THEN [threw |-> TRUE, decoded |-> <<>>]
       ELSE [threw |-> FALSE, decoded |-> Decoded(token)]
  ELSE IF token \in ValidTokens
       THEN [threw |-> FALSE, decoded |-> Decoded(token)]
       ELSE [threw |-> TRUE, decoded |-> <<>>]

Unauthorized(msg) == [status |-> 401, success |-> FALSE, error |-> msg]

\* authMiddleware(req, res, next): 401 without a header that starts with
\* "Bearer " and 401 when the token does not verify; else req.user is the
\* decoded token and next() is called
AuthMiddleware(header) ==
  IF ~header.set \/ ~StartsWith(header.s, Bearer)
  THEN [next |-> FALSE, user |-> <<>>,
        resp |-> Unauthorized("Authentication required")]
  ELSE LET v == Verify(SubSeq(header.s, Len(Bearer) + 1, Len(header.s)))
       IN IF v.threw
          THEN [next |-> FALSE, user |-> <<>>,
                resp |-> Unauthorized("Invalid or expired token")]
          ELSE [next |-> TRUE, user |-> v.decoded, resp |-> <<>>]

\* the handler of the route, entered by the request as the middleware left it
Handler(r, kind, q, from) ==
  IF kind = "detail" THEN DetailArriveFrom(r, q, from)
  ELSE ArriveFrom(r, kind, q, from)

\* a route registered without its middleware
RouteWithoutAuth(r, kind, q, header) ==
  Handler(r, kind, q, [Idle EXCEPT !.auth = header])

\* router.get(path, authMiddleware, handler): the handler runs only when
\* the middleware calls next(); otherwise the middleware's response is
\* the request's response
Route(r, kind, q, header) ==
  LET a == AuthMiddleware(header)
  IN IF a.next
     THEN Handler(r, kind, q, [Idle EXCEPT !.auth = header, !.user = a.user])
     ELSE /\ req[r].pc = "idle"
          /\ req' = [req EXCEPT ![r] =
                       [Idle EXCEPT !.kind = kind, !.q = q, !.t0 = now,
                                    !.auth = header, !.pc = "done",
                                    !.resp = a.resp]]
          /\ ev' = Event("unauthorized", r, <<>>, {})
          /\ UNCHANGED <<now, listing, cache, lastOk>>

\* no header, a header that does not start with "Bearer ", a token that
\* does not verify, and a valid token
AuthHeaders ==
  {Missing,
   Given(<<"T", "o", "k", "e", "n", " ", "o", "k">>),
   Given(<<"b", "e", "a", "r", "e", "r", " ", "o", "k">>),
   Given(Bearer \o <<"b", "a", "d">>),
   Given(Bearer),
   Given(Bearer \o <<"o", "k">>)}

AuthIds == {<<"2", "5">>, <<"a">>}

\* requests with any header, one at a time, every upstream call answering
NextAuth ==
  \/ \E q \in ListQueries, h \in AuthHeaders : Route(1, "list", q, h)
  \/ \E q \in NumberQueries, h \in AuthHeaders : Route(1, "number", q, h)
  \/ \E id \in AuthIds, h \in AuthHeaders : Route(1, "detail", id, h)
  \/ IndexReplyOk(1)
  \/ \E i \in 1..Cardinality(Names) : SummaryReplyOk(1, i)
  \/ \E url \in BOOLEAN : PokemonReplyOk(1, url)
  \/ SpeciesReplyOk(1, SpeciesAtId)
  \/ Finish(1)

SpecAuth == Init /\ [][NextAuth]_vars

\* ------------------------------------------------- the auth routes

VALID_CREDENTIALS ==
  [username |-> <<"a", "d", "m", "i", "n">>,
   password |-> <<"a", "d", "m", "i", "n">>]

\* the 200 of POST /login
LoggedIn(token, username) ==
  [status |-> 200, success |-> TRUE,
   data |-> [token |-> token, user |-> [username |-> username]]]

\* the responses the handler of POST /login sends for a body, in the order
\* it sends them, at time t
LoginSkipsFormatCheck(body, t) ==
  IF ~Truthy(body.username) \/ ~Truthy(body.password)
  THEN <<BadRequest("Username and password are required")>>
  ELSE IF \/ body.username.t # "string" \/ body.password.t # "string"
          \/ body.username.v # VALID_CREDENTIALS.username
          \/ body.password.v # VALID_CREDENTIALS.password
       THEN <<Unauthorized("Invalid username or password")>>
       ELSE <<LoggedIn(Sign([username |-> body.username.v, loginTime |-> t], t),
                       body.username.v)>>
LoginSent(body, t) ==
  IF ~Truthy(body.username) \/ ~Truthy(body.password)
  THEN <<BadRequest("Username and password are required")>>
  ELSE IF body.username.t # "string" \/ body.password.t # "string"
       THEN <<BadRequest("Invalid input format")>>
       ELSE IF \/ body.username.v # VALID_CREDENTIALS.username
               \/ body.password.v # VALID_CREDENTIALS.password
            THEN <<Unauthorized("Invalid username or password")>>
            ELSE <<LoggedIn(Sign([username |-> body.username.v,
                                  loginTime |-> t], t),
                            body.username.v)>>

\* the 200 of POST /verify
Verified(decoded) ==
  [status |-> 200, success |-> TRUE,
   data |-> [user |-> [username |-> decoded.username]]]

\* the responses the handler of POST /verify sends for a body; a token
\* that is not a string makes jwt.verify throw
VerifySent(body) ==
  IF ~Truthy(body.token)
  THEN <<BadRequest("Token is required")>>
  ELSE IF body.token.t # "string" \/ Verify(body.token.v).threw
       THEN <<Unauthorized("Invalid or expired token")>>
       ELSE <<Verified(Verify(body.token.v).decoded)>>

\* the responses the handler of POST /logout sends
LogoutSent ==
  <<[status |-> 200, success |-> TRUE, message |-> "Logged out successfully"]>>

\* what the client of the auth routes holds: the token of its latest
\* successful login, and whether it has logged out since
NoSession == [token |-> <<>>, loggedOut |-> FALSE]
Session(old, kind, sent) ==
  IF kind = "login" /\ sent # <<>> /\ sent[1].status = 200
  THEN [token |-> sent[1].data.token, loggedOut |-> FALSE]
  ELSE IF kind = "logout" /\ old.token # <<>>
       THEN [old EXCEPT !.loggedOut = TRUE]
       ELSE old

\* a handler of the auth routes runs from the request to its return
AuthRoute(r, kind, body, sent) ==
  /\ req[r].pc = "idle"
  /\ req' = [req EXCEPT ![r] =
               [Idle EXCEPT !.kind = kind, !.q = body, !.t0 = now,
                            !.pc = "done", !.sent = Len(sent),
                            !.resp = sent[1]]]
  /\ lastOk' = Session(lastOk, kind, sent)
  /\ ev' = Event(kind, r, <<>>, {})
  /\ UNCHANGED <<now, listing, cache>>

Login(r, body) == AuthRoute(r, "login", body, LoginSent(body, now))
VerifyToken(r, body) == AuthRoute(r, "verify", body, VerifySent(body))
Logout(r) == AuthRoute(r, "logout", <<>>, LogoutSent)

\* the values of a field of a request body: left out, empty, not a
\* string, and strings
Admin == JsStr(<<"a", "d", "m", "i", "n">>)
Credentials ==
  <<Undefined, JsStr(<<>>), JsNum(0), JsNum(5), Admin,
    JsStr(<<"w", "r", "o", "n", "g">>)>>
LoginBody(username, password) ==
  [username |-> username, password |-> password]

\* the tokens a client can present: no token, a number, a string that is
\* no token, and the token its login returned, as it is and signed with
\* another key
Forged(token) == [token EXCEPT ![3] = "other-key"]
Presented ==
  <<Undefined, JsStr(<<>>), JsNum(5), JsStr(<<"b", "a", "d">>)>>
    \o (IF lastOk.token = <<>> THEN <<>>
        ELSE <<JsStr(lastOk.token), JsStr(Forged(lastOk.token))>>)
VerifyBody(token) == [token |-> token]
SessionHeaders ==
  {Missing, Given(Bearer \o <<"b", "a", "d">>)}
    \cup (IF lastOk.token = <<>> THEN {}
          ELSE {Given(Bearer \o lastOk.token),
                Given(Bearer \o Forged(lastOk.token))})

\* the clock around the expiry of a token issued at 0 and of one issued
\* one second later
SessionInstants ==
  {0, 1000, TokenTTL * 1000 - 1, TokenTTL * 1000,
   (TokenTTL + 1) * 1000 - 1, (TokenTTL + 1) * 1000}

\* the auth routes in slot 1 and a gated list request in slot 2, which
\* ends at the gate or, past it, with the upstream down
NextSession ==
  \/ \E i, j \in 1..Len(Credentials) :
       Login(1, LoginBody(Credentials[i], Credentials[j]))
  \/ \E i \in 1..Len(Presented) : VerifyToken(1, VerifyBody(Presented[i]))
  \/ Logout(1)
  \/ \E q \in ListQueries, h \in SessionHeaders : Route(2, "list", q, h)
  \/ IndexReplyFail(2, NetworkError)
  \/ \E r \in Slots : Finish(r)
  \/ \E t \in SessionInstants : Tick(t)

InitSession ==
  /\ now = 0
  /\ listing = <<"charmander">>
  /\ cache = <<>>
  /\ req = [r \in Slots |-> Idle]
  /\ lastOk = NoSession
  /\ ev = NoEvent

SpecSession == InitSession /\ [][NextSession]_vars

\* ------------------------------------------------- the error handler

\* the errors next(error) can hand to the error handler: with or without
\* an upstream response, under any of the names the handler tests
ErrorNames == {"Error", "AxiosError", "JsonWebTokenError", "TokenExpiredError"}
AnyErrors ==
  {[response |-> resp, status |-> IF resp THEN st ELSE 0,
    statusText |-> IF resp THEN StatusText(st) ELSE "", name |-> n] :
     resp \in BOOLEAN, st \in {401, 404, 500, 503}, n \in ErrorNames}

\* next(err) in a route of the application: errorHandler answers
NextError(r, err) ==
  /\ req[r].pc = "idle"
  /\ req' = [req EXCEPT ![r] =
               [Idle EXCEPT !.kind = "error", !.t0 = now, !.pc = "done",
                            !.err = err, !.resp = ErrorResponse(err)]]
  /\ ev' = Event("nextError", r, <<>>, {})
  /\ UNCHANGED <<now, listing, cache, lastOk>>

\* every error at the error handler, and the upstream failures that reach
\* it through the three handlers
NextErr ==
  \/ \E r \in Slots, err \in AnyErrors : NextError(r, err)
  \/ \E q \in ListQueries : Arrive(1, "list", q)
  \/ \E q \in NumberQueries : Arrive(1, "number", q)
  \/ DetailArrive(1, <<"2", "5">>)
  \/ IndexReplyOk(1)
  \/ \E err \in DetailErrors : IndexReplyFail(1, err)
  \/ \E i \in 1..Cardinality(Names), err \in DetailErrors : SummaryReplyFail(1, i, err)
  \/ \E err \in DetailErrors : PokemonReplyFail(1, err)
  \/ \E r \in Slots : Finish(r)

SpecErr == Init /\ [][NextErr]_vars

\* ------------------------------------------------- upstream that may not answer

\* one request at a time of each handler. The handler's steps are the
\* continuations of its awaits: each runs when the upstream answers
\* (axios.get is called without a timeout option, so nothing else ends
\* an await). Sending the response and releasing the slot is the
\* program's own step and is always taken; whether the upstream answers
\* is not the program's to decide, so no reply is required to happen.
Upstream(r) ==
  \/ IndexReplyOk(r)
  \/ \E err \in Errors : IndexReplyFail(r, err)
  \/ \E i \in 1..Cardinality(Names) : SummaryReplyOk(r, i)
  \/ \E i \in 1..Cardinality(Names), err \in Errors : SummaryReplyFail(r, i, err)
  \/ \E url \in BOOLEAN : PokemonReplyOk(r, url)
  \/ \E err \in DetailErrors : PokemonReplyFail(r, err)
  \/ \E data \in {SpeciesAtId, SpeciesSparse} : SpeciesReplyOk(r, data)
  \/ \E err \in DetailErrors : SpeciesReplyFail(r, err)
  \/ \E data \in {SpeciesAtUrl, SpeciesSparse} : RedirectReplyOk(r, data)
  \/ \E err \in DetailErrors : RedirectReplyFail(r, err)

NextLive ==
  \/ \E q \in ListQueries : Arrive(1, "list", q)
  \/ \E q \in NumberQueries : Arrive(1, "number", q)
  \/ \E id \in AuthIds : DetailArrive(1, id)
  \/ Upstream(1)
  \/ Finish(1)

\* the handlers' positions: every step of a request changes its own
pcs == [r \in Slots |-> req[r].pc]

SpecLive == Init /\ [][NextLive]_vars /\ WF_pcs(Finish(1))

\* getCachedOrFetch on its own, called with any key and any fetchFn: what
\* fetchFn resolves to ranges over the kinds of JavaScript value
FetchResults ==
  << Null, Undefined, JsBool(FALSE), JsNum(0), JsStr(<<>>), Arr(<<>>),
     Obj(<<>>), JsBool(TRUE), JsStr(<<"a">>), Arr(IndexOf(<<"ivysaur">>)),
     Obj(SummaryOf("ivysaur")) >>

FetchKeys == {AllKey, SummaryKey("ivysaur")}

Thrown == [t |-> "thrown", v |-> 0]

\* const cached = cache.get(key); a valid record is returned at once,
\* anything else awaits fetchFn()
GcfCall(r, key) ==
  /\ req[r].pc = "idle"
  /\ LET call == Call(cache, key, now)
         rq == [Idle EXCEPT !.kind = "call", !.q = key, !.t0 = now,
                            !.cached = call.rec]
     IN /\ req' = [req EXCEPT ![r] =
                     IF call.hit
                     THEN [rq EXCEPT !.pc = "done", !.idx = "hit",
                                     !.resp = call.rec.data]
                     ELSE [rq EXCEPT !.pc = "awaitFetch", !.idx = "miss"]]
        /\ ev' = Event("call", r, key, {call})
  /\ UNCHANGED <<now, listing, cache, lastOk>>

\* fetchFn() resolves to data: stored if it passes the test, returned anyway
FetchReturn(r, data) ==
  /\ req[r].pc = "awaitFetch"
  /\ cache' = Stored(cache, req[r].q, data, now)
  /\ req' = [req EXCEPT ![r].pc = "done", ![r].resp = data]
  /\ ev' = Event("fetched", r, req[r].q, {})
  /\ UNCHANGED <<now, listing, lastOk>>

\* fetchFn() rejects: getCachedOrFetch rejects with it
FetchThrow(r) ==
  /\ req[r].pc = "awaitFetch"
  /\ cache' = Rejected(cache, req[r].q)
  /\ req' = [req EXCEPT ![r].pc = "done", ![r].resp = Thrown]
  /\ ev' = Event("threw", r, req[r].q, {})
  /\ UNCHANGED <<now, listing, lastOk>>

InitGcf == Init /\ listing = <<>>

NextGcf ==
  \/ \E key \in FetchKeys : GcfCall(1, key)
  \/ \E i \in 1..Len(FetchResults) : FetchReturn(1, FetchResults[i])
  \/ FetchThrow(1)
  \/ Finish(1)
  \/ \E t \in Instants : Tick(t)

SpecGcf == InitGcf /\ [][NextGcf]_vars

\* ------------------------------------------------------------------ claims

Age(c) == c.at - c.rec.timestamp
Expired(c) == c.rec = NoRec \/ Age(c) >= CACHE_TTL
WindowPos(rq, key) ==
  {i \in 1..Len(rq.page.win) : SummaryKey(rq.page.win[i].name) = key}

\* C1: a getCachedOrFetch call returns the stored value without calling
\* fetchFn only when now - storedAt < 5 minutes; when the record is missing
\* or now - storedAt >= 5 minutes it calls fetchFn (the fetch is pending
\* when the step ends) and does not return the stored value.
C1_StoredValueOnlyWhileValid ==
  \A c \in ev.calls :
    LET rq == req[ev.r]
    IN IF c.key = AllKey
       THEN /\ rq.idx = "hit" => ~Expired(c) /\ rq.used[AllKey] = c.rec
                                /\ rq.nIdx = 0
            /\ Expired(c) => rq.pc = "awaitIndex" /\ rq.idx = "miss"
       ELSE \A i \in WindowPos(rq, c.key) :
              /\ i \notin rq.pend => ~Expired(c) /\ rq.got[i] = c.rec.data
              /\ Expired(c) => i \in rq.pend /\ rq.got[i] = Undefined

\* a record exactly 5 minutes old is read and the fetch is made instead
C1_Witness ==
  \E c \in ev.calls :
    /\ c.rec # NoRec
    /\ Age(c) = CACHE_TTL
    /\ c.key = AllKey
    /\ req[ev.r].pc = "awaitIndex"

\* the second of two list requests for one page: the first has succeeded
\* (prev) and the second has arrived less than 5 minutes later
SecondWithinTTL(rq) ==
  /\ rq.kind = "list"
  /\ rq.prev # NoOk
  /\ rq.prev.q = rq.q
  /\ rq.t0 - rq.prev.at < CACHE_TTL

\* the records a response was read from are all still in the cache and less
\* than 5 minutes old at time t
StillCached(used, t) ==
  \A k \in DOMAIN used :
    /\ used[k] # NoRec
    /\ Get(cache, k) = used[k]
    /\ t - used[k].timestamp < CACHE_TTL

ServedFromCache(rq) ==
  /\ rq.pc = "done"
  /\ rq.pend = {}
  /\ rq.resp.status = 200
  /\ rq.resp.results = rq.prev.results
  /\ rq.idx = "hit"
  /\ rq.nIdx = 0
  /\ ~rq.upOk

\* C2 as stated: a list request that arrives less than 5 minutes after a
\* list request for the same page has succeeded, and whose upstream calls
\* all fail, succeeds with the same results and makes no listing call.
C2_SecondWithinFiveMinutesOfSuccess ==
  \A r \in Slots :
    (SecondWithinTTL(req[r]) /\ req[r].pc = "done" /\ req[r].pend = {}
       /\ ~req[r].upOk)
    => ServedFromCache(req[r])

\* C2, amended: a list request that arrives while the index record and the
\* summary records the earlier response for the same page was read from
\* are still in the cache and less than 5 minutes old is answered in its
\* arrival step with the same results and without any upstream call, so it
\* succeeds even if every upstream call would fail.
C2_SecondWhileRecordsValid ==
  \A r \in Slots :
    (ev.op = "arrive" /\ ev.r = r /\ req[r].kind = "list"
       /\ req[r].prev # NoOk /\ req[r].prev.q = req[r].q
       /\ StillCached(req[r].prev.used, req[r].t0))
    => ServedFromCache(req[r])

\* the second request arrives later than the first response, its records
\* still valid, and the page is not empty
C2_Witness ==
  \E r \in Slots :
    /\ ev.op = "arrive" /\ ev.r = r /\ req[r].kind = "list"
    /\ req[r].prev # NoOk /\ req[r].prev.q = req[r].q
    /\ StillCached(req[r].prev.used, req[r].t0)
    /\ req[r].t0 > req[r].prev.at
    /\ Len(req[r].resp.results) = 2
    /\ listing = <<>>

\* a list request that arrives 5 minutes or more after the index was
\* stored, the upstream listing being another one now
ArrivedAfterExpiry(rq) ==
  /\ rq.pc # "idle"
  /\ rq.kind = "list"
  /\ rq.cached # NoRec
  /\ rq.t0 - rq.cached.timestamp >= CACHE_TTL

ListingChanged(rq) == rq.cached.data.v # IndexOf(rq.snap)

NamesOf(s) == [i \in 1..Len(s) |-> s[i].name]

\* the response is the page of the listing that the refetch returned
ReflectsFetched(rq) ==
  LET page == ListPage(IndexOf(rq.snap), rq.q)
  IN /\ rq.resp.total = page.total
     /\ NamesOf(rq.resp.results) = NamesOf(page.win)

Refetched(rq) == rq.idx = "miss" /\ rq.nIdx = 1

\* C3 as stated: such a request refetches the listing, its response
\* reflects the changed listing, and the index record is replaced by the
\* new listing when the refetch returns.
C3_RefetchReplacesRecord ==
  \A r \in Slots :
    ArrivedAfterExpiry(req[r]) =>
      /\ Refetched(req[r])
      /\ (req[r].upOk /\ ListingChanged(req[r])) =>
           /\ (req[r].pc = "done" /\ req[r].pend = {} /\ req[r].resp.status = 200)
                => ReflectsFetched(req[r])
           /\ (ev.op = "indexOk" /\ ev.r = r)
                => Get(cache, AllKey) = [data |-> Arr(IndexOf(req[r].snap)),
                                         timestamp |-> now]

\* C3, amended: the record is replaced by the new listing when that listing
\* is not empty; an empty listing is answered to the caller and not stored,
\* so the expired record stays.
C3_RefetchReplacesRecordUnlessEmpty ==
  \A r \in Slots :
    ArrivedAfterExpiry(req[r]) =>
      /\ Refetched(req[r])
      /\ (req[r].upOk /\ ListingChanged(req[r])) =>
           /\ (req[r].pc = "done" /\ req[r].pend = {} /\ req[r].resp.status = 200)
                => ReflectsFetched(req[r])
           /\ (ev.op = "indexOk" /\ ev.r = r) =>
                IF req[r].snap # <<>>
                THEN Get(cache, AllKey) = [data |-> Arr(IndexOf(req[r].snap)),
                                           timestamp |-> now]
                ELSE Get(cache, AllKey) = req[r].cached

\* a changed, non-empty listing has been refetched after expiry, answered
\* and stored
C3_Witness ==
  \E r \in Slots :
    /\ ArrivedAfterExpiry(req[r])
    /\ req[r].upOk /\ ListingChanged(req[r])
    /\ req[r].snap # <<>>
    /\ req[r].pc = "done" /\ req[r].resp.status = 200
    /\ Get(cache, AllKey).data.v = IndexOf(req[r].snap)
    /\ Get(cache, AllKey).timestamp >= CACHE_TTL

FailOps == {"indexFail", "summaryFail"}

\* the record the getCachedOrFetch call of rq for key read when it began
SeenBy(rq, key) ==
  IF key = AllKey THEN rq.cached
  ELSE rq.seen[CHOOSE i \in WindowPos(rq, key) : TRUE]

ValidAt(rec, t) == rec # NoRec /\ t - rec.timestamp < CACHE_TTL

\* C5 as stated: when the fetch for a key fails, the record of that key is
\* as it was before the request (none created or replaced, timestamp
\* unchanged), the error reaches the caller, and the next request for that
\* key calls the upstream again (it finds no valid record).
C5_FailedFetchLeavesKeyAsBefore ==
  ev.op \in FailOps =>
    /\ Get(cache, ev.key) = SeenBy(req[ev.r], ev.key)
    /\ req[ev.r].pc = "done" /\ ~req[ev.r].resp.success
    /\ ~ValidAt(Get(cache, ev.key), now)

\* C5, amended: the failing fetch itself changes nothing in the cache, the
\* error reaches the caller, and the next request for that key calls the
\* upstream again unless another request's fetch for that key has stored a
\* record since the failing call began.
C5_FailedFetchStoresNothing ==
  [][ev'.op \in FailOps =>
       /\ cache' = cache
       /\ req'[ev'.r].pc = "done" /\ ~req'[ev'.r].resp.success
       /\ Get(cache', ev'.key) = SeenBy(req'[ev'.r], ev'.key)
            => ~ValidAt(Get(cache', ev'.key), now')]_vars

\* a listing fetch has failed while the fetch of a concurrent request for
\* the same key has stored its record
C5_Witness ==
  /\ ev.op = "indexFail"
  /\ ~req[ev.r].resp.success
  /\ req[ev.r].cached = NoRec
  /\ ValidAt(Get(cache, AllKey), now)

\* C6 as stated: the requests that run concurrently while the index key is
\* absent or expired have at most one upstream listing call between them.
C6_OneListingCallForAll ==
  Cardinality({r \in Slots : req[r].pc = "awaitIndex"}) <= 1

\* C6, amended: every request that finds the index key absent or expired
\* makes one upstream listing call of its own, and no request makes more
\* than one; concurrent misses are not coalesced.
C6_OneListingCallPerRequest ==
  \A r \in Slots :
    LET rq == req[r]
    IN /\ rq.idx # "none" =>
            rq.nIdx = IF ValidAt(rq.cached, rq.t0) THEN 0 ELSE 1
       /\ rq.idx = "none" => rq.nIdx = 0
       /\ rq.pc = "awaitIndex" => rq.nIdx = 1

\* two requests have each their own listing call in flight
C6_Witness ==
  /\ \A r \in {1, 2} : req[r].pc = "awaitIndex" /\ req[r].nIdx = 1
  /\ {req[1].kind, req[2].kind} = {"list", "number"}

\* falsy, or an array or object with nothing in it
EmptyValue(d) ==
  \/ ~Truthy(d)
  \/ d.t \in {"array", "object"} /\ DOMAIN d.v = {}

Answered(kind) ==
  {r \in Slots : req[r].pc = "done" /\ req[r].kind = kind
                   /\ req[r].resp.status = 200}

\* C7: a successful list response holds at most limit results: min(limit,
\* total - offset) of them when offset < total and none when
\* offset >= total, for every limit and offset the normalizer produces.
C7_WindowSize ==
  \A r \in Answered("list") :
    LET a == req[r].resp
        n == Len(a.results)
    IN /\ n <= a.limit
       /\ a.offset < a.total => n = Min(a.limit, a.total - a.offset)
       /\ a.offset >= a.total => n = 0

\* C8: in every successful list response hasNext is (offset + limit <
\* total) and hasPrev is (offset > 0), of the values the response echoes.
C8_ListPaginationFlags ==
  \A r \in Answered("list") :
    LET a == req[r].resp
    IN /\ a.hasNext = (a.offset + a.limit < a.total)
       /\ a.hasPrev = (a.offset > 0)

\* a middle page: something before it and something behind it
C8_Witness ==
  \E r \in Answered("list") :
    /\ req[r].resp.hasNext /\ req[r].resp.hasPrev
    /\ req[r].resp.offset + req[r].resp.limit + 1 = req[r].resp.total

\* C9: in every successful number-lookup response, also when no index
\* entry matches, hasNext is (offset + limit < total) and hasPrev is
\* (offset > 0).
C9_NumberPaginationFlags ==
  \A r \in Answered("number") :
    LET a == req[r].resp
    IN /\ a.hasNext = (a.offset + a.limit < a.total)
       /\ a.hasPrev = (a.offset > 0)

CharSearch == Given(<<"c", "h", "a", "r">>)

\* C10: the total of a list response is the number of index entries left
\* by the search filter, whatever limit, offset, sortBy and sortOrder are;
\* with the index [bulbasaur, ivysaur, charmander] and the search "char"
\* the results are charmander alone and the total is 1.
C10_TotalIsFilteredCount ==
  \A r \in Answered("list") :
    LET rq == req[r]
        index == IndexOf(rq.snap)
        kept == {i \in 1..Len(index) :
                   Filtered(<<index[i]>>, NormSearch(rq.q.search)) # <<>>}
    IN /\ rq.resp.total = Cardinality(kept)
       /\ (rq.snap = <<"bulbasaur", "ivysaur", "charmander">>
             /\ rq.q.search = CharSearch)
            => /\ rq.resp.total = 1
               /\ \A i \in 1..Len(rq.resp.results) :
                    rq.resp.results[i].name = "charmander"
               /\ (rq.resp.offset = 0 /\ rq.resp.limit > 0 =>
                     NamesOf(rq.resp.results) = <<"charmander">>)

\* the example, on its first page
C10_Witness ==
  \E r \in Answered("list") :
    /\ req[r].snap = <<"bulbasaur", "ivysaur", "charmander">>
    /\ req[r].q.search = CharSearch
    /\ req[r].q.limit = Missing
    /\ req[r].resp.limit = DefaultLimit
    /\ NamesOf(req[r].resp.results) = <<"charmander">>
    /\ req[r].resp.total = 1

Reverse(s) == [i \in 1..Len(s) |-> s[Len(s) + 1 - i]]

ByNumber(sortOrder) == [mode |-> "list", sortBy |-> "number", sortOrder |-> sortOrder]

\* the summaries of a sequence of index entries
SummariesOf(entries) == [i \in 1..Len(entries) |-> SummaryOf(entries[i].name)]

\* the request asks for the whole filtered sequence in one page
WholePage(rq) == rq.resp.offset = 0 /\ rq.resp.limit >= rq.resp.total

\* C11: for any index and search filter the filtered sequence sorted by
\* number descending is the reverse of the one sorted by number ascending,
\* and a response that holds the whole descending sequence is the reverse
\* of the ascending one.
C11_DescIsReverseOfAsc ==
  \A r \in Answered("list") :
    LET rq == req[r]
        filtered == Filtered(IndexOf(rq.snap), NormSearch(rq.q.search))
        asc == Sort(filtered, ByNumber("asc"))
        desc == Sort(filtered, ByNumber("desc"))
    IN /\ desc = Reverse(asc)
       /\ (NormSortBy(rq.q.sortBy) # "name" /\ rq.q.sortOrder = "desc"
             /\ WholePage(rq))
            => rq.resp.results = Reverse(SummariesOf(asc))

\* a descending response of all three entries
C11_Witness ==
  \E r \in Answered("list") :
    /\ req[r].q.sortOrder = "desc" /\ req[r].q.sortBy = "number"
    /\ NamesOf(req[r].resp.results) = <<"charmander", "ivysaur", "bulbasaur">>

\* s is ordered by the position at which each entry's number first appears
InRequestOrder(s, nums) ==
  \A i, j \in 1..Len(s) :
    i < j => FirstIndex(nums, s[i].number) < FirstIndex(nums, s[j].number)

SameEntries(s, t) ==
  Len(s) = Len(t) /\ {s[i] : i \in 1..Len(s)} = {t[i] : i \in 1..Len(t)}

\* C12: in the number-lookup mode the matched entries are ordered by the
\* position at which each number first appears in the request, the page
\* window is cut from that order and the results follow the window;
\* requesting 3,1 yields the entry numbered 3 before the entry numbered 1.
C12_NumberLookupKeepsRequestOrder ==
  \A r \in Answered("number") :
    LET rq == req[r]
        index == IndexOf(rq.snap)
        nums == SearchNumbers(rq.q.numbers)
        matched == SelectSeq(index, LAMBDA p : Includes(nums, p.number))
        full == Sort(matched, [mode |-> "numbers", numbers |-> nums])
    IN /\ SameEntries(full, matched)
       /\ InRequestOrder(full, nums)
       /\ rq.page.win = Slice(full, rq.resp.offset, rq.resp.offset + rq.resp.limit)
       /\ NamesOf(rq.resp.results) = NamesOf(rq.page.win)
       /\ (rq.q.numbers = <<"3", ",", "1">> /\ WholePage(rq)
             /\ rq.snap = <<"bulbasaur", "ivysaur", "charmander">>)
            => NamesOf(rq.resp.results) = <<"charmander", "bulbasaur">>

\* 3,1 is answered with the third entry before the first
C12_Witness ==
  \E r \in Answered("number") :
    /\ req[r].q.numbers = <<"3", ",", "1">>
    /\ NamesOf(req[r].page.win) = <<"charmander", "bulbasaur">>
    /\ NamesOf(req[r].resp.results) = <<"charmander", "bulbasaur">>

\* the numeral without its leading zeros (the last digit stays)
RECURSIVE Unpad(_)
Unpad(s) ==
  IF Len(s) > 1 /\ Head(s) = "0" /\ IsDigit(s[2]) THEN Unpad(Tail(s)) ELSE s

RECURSIVE Join(_, _)
Join(parts, sep) ==
  IF Len(parts) = 0 THEN <<>>
  ELSE IF Len(parts) = 1 THEN parts[1]
  ELSE parts[1] \o <<sep>> \o Join(Tail(parts), sep)

\* the path with every numeral unpadded
UnpadPath(numbers) ==
  LET parts == Split(numbers, ",")
  IN Join([i \in 1..Len(parts) |-> Unpad(parts[i])], ",")

\* C13: a number lookup whose path is a zero-padded numeral is answered
\* with the same results and pagination as the lookup with the unpadded
\* numeral, for the same limit, offset and upstream listing.
C13_ZeroPaddedSameAsPlain ==
  \A r1, r2 \in Answered("number") :
    (/\ req[r1].q.numbers \in PaddedPaths
     /\ req[r2].q.numbers = UnpadPath(req[r1].q.numbers)
     /\ req[r1].q.limit = req[r2].q.limit
     /\ req[r1].q.offset = req[r2].q.offset)
    => /\ SearchNumbers(req[r1].q.numbers) = SearchNumbers(req[r2].q.numbers)
       /\ req[r1].resp = req[r2].resp

\* 002 and 2 have both been answered with ivysaur
C13_Witness ==
  /\ Answered("number") = {1, 2}
  /\ req[1].q.numbers = <<"0", "0", "2">>
  /\ req[2].q.numbers = <<"2">>
  /\ req[1].q.limit = req[2].q.limit /\ req[1].q.offset = req[2].q.offset
  /\ NamesOf(req[1].resp.results) = <<"ivysaur">>
  /\ req[2].resp.total = 1

\* the requests whose page window has been computed and not failed
Paged ==
  {r \in Slots :
     \/ req[r].pc = "awaitSummaries"
     \/ req[r].pc = "done" /\ req[r].resp.status = 200}

\* C14: the summary fetches of a page window are all begun in the step that
\* computes the window, and whatever order they complete in, every value
\* joined so far stands at its window position and results[i] of the
\* response is the summary of the i-th window entry.
C14_ResultsInWindowOrder ==
  \A r \in Paged :
    LET rq == req[r]
        win == rq.page.win
    IN /\ \A i \in (1..Len(win)) \ rq.pend :
            rq.got[i].t = "object" /\ rq.got[i].v = SummaryOf(win[i].name)
       /\ (ev.op \in {"arrive", "indexOk"} /\ ev.r = r) =>
            \A i \in 1..Len(win) :
              \E c \in ev.calls : c.key = WindowKey(rq.page, i) /\ c.at = now
       /\ rq.pc = "done" => rq.resp.results = SummariesOf(win)

\* the fetch of the first window entry was the last to complete
C14_Witness ==
  \E r \in Paged :
    /\ req[r].pc = "done"
    /\ Len(req[r].resp.results) >= 2
    /\ ev.op = "summaryOk" /\ ev.r = r
    /\ ev.key = WindowKey(req[r].page, 1)
    /\ req[r].seen[2] = NoRec

\* the detail requests that have been answered
DetailDone == {r \in Slots : req[r].kind = "detail" /\ req[r].pc = "done"}

\* the step just taken answered r's detail request through op
AnsweredBy(r, op) == r \in DetailDone /\ ev.op = op /\ ev.r = r

\* C15: a detail request whose primary record is fetched, whose species
\* lookup at the id fails and whose redirect URL resolves succeeds, and its
\* description, genus, habitat, generation and forms come from the record
\* fetched through the redirect: not the sentinels when the record has the
\* data.
C15_SpeciesThroughRedirect ==
  \A r \in Slots :
    AnsweredBy(r, "redirectOk") =>
      LET rq == req[r]
          f == rq.resp.data.fields
      IN /\ rq.resp.status = 200 /\ rq.resp.success
         /\ rq.resp.data.id = rq.pokemon.id
         /\ rq.species.data = SpeciesAtUrl =>
              /\ f.forms = <<[name |-> "pikachu", isDefault |-> TRUE]>>
              /\ f.description = <<"a", " ", "b">>
              /\ f.genus = "Mouse" /\ f.habitat = "forest"
              /\ f.generation = "generation-i"
         /\ rq.species.data = SpeciesSparse =>
              /\ f.forms = <<>>
              /\ f.description = <<"No description available">>
              /\ f.genus = "Unknown" /\ f.habitat = "Unknown"
              /\ f.generation = "generation-i"

\* answered from the record behind the redirect
C15_Witness ==
  \E r \in Slots :
    /\ AnsweredBy(r, "redirectOk")
    /\ req[r].pokemon.species.url
    /\ req[r].species.data = SpeciesAtUrl
    /\ req[r].resp.data.fields.genus = "Mouse"

\* C16: a detail request whose primary record is fetched, whose species
\* lookup fails and whose primary record carries no redirect URL succeeds
\* with forms = [], description = "No description available", genus =
\* habitat = generation = "Unknown", and the result is stored under the
\* detail key.
C16_SentinelsWithoutRedirect ==
  \A r \in Slots :
    AnsweredBy(r, "speciesFail") =>
      LET rq == req[r]
          f == rq.resp.data.fields
      IN /\ ~rq.pokemon.species.url
         /\ rq.resp.status = 200 /\ rq.resp.success
         /\ f.forms = <<>>
         /\ f.description = <<"No description available">>
         /\ f.genus = "Unknown" /\ f.habitat = "Unknown"
         /\ f.generation = "Unknown"
         /\ Get(cache, DetailKey(rq.q)) =
              [data |-> Obj(rq.resp.data), timestamp |-> now]

\* the degraded result has been answered and stored
C16_Witness ==
  \E r \in Slots :
    /\ AnsweredBy(r, "speciesFail")
    /\ req[r].resp.data.fields = SentinelFields
    /\ DetailKey(req[r].q) \in DOMAIN cache

\* C17: a detail request whose primary record is fetched never fails
\* because of the secondary record: when the species lookup and the fetch
\* of the redirect URL both fail it succeeds with the sentinel fields.
C17_SecondaryNeverAborts ==
  \A r \in DetailDone :
    req[r].pokemon # <<>> =>
      /\ req[r].resp.status = 200
      /\ AnsweredBy(r, "redirectFail") =>
           req[r].resp.data.fields = SentinelFields

NotFound == [status |-> 404, success |-> FALSE, error |-> "Pokemon not found"]

\* C18: an upstream 404 for the primary record is answered 404 "Pokemon
\* not found" with nothing stored under the detail key, and no other
\* detail request is answered 404 "Pokemon not found".
C18_NotFoundIffPrimaryMissing ==
  \A r \in DetailDone :
    /\ (AnsweredBy(r, "pokemonFail") /\ req[r].err = HttpError(404)) =>
         /\ req[r].resp = NotFound
         /\ DetailKey(req[r].q) \notin DOMAIN cache
    /\ (req[r].resp.status = 404 /\ req[r].resp.error = "Pokemon not found") =>
         req[r].pokemon = <<>>

\* the digits of a positive integer and nothing else
PositiveInteger(id) ==
  /\ id # <<>>
  /\ \A i \in 1..Len(id) : IsDigit(id[i])
  /\ ParseIntStr(id).v > 0

\* C19: a detail request whose id is not a positive integer is answered
\* 400, makes no upstream call and leaves the cache unchanged.
C19_InvalidIdRejected ==
  \A r \in Slots :
    (req[r].kind = "detail" /\ ~PositiveInteger(req[r].q)) =>
      /\ req[r].pc = "done"
      /\ req[r].resp = BadRequest("Valid Pokemon ID is required")
      /\ (ev.op = "detailArrive" /\ ev.r = r) => ev.calls = {}

\* a number lookup none of whose segments parses to an integer
EmptyNumberSet(rq) ==
  rq.kind = "number" /\ Len(SearchNumbers(rq.q.numbers)) = 0

\* C20 as stated: a number lookup with an empty set of numbers is
\* answered with a successful empty page.
C20_EmptySetGivesEmptyPage ==
  \A r \in Slots :
    (EmptyNumberSet(req[r]) /\ req[r].pc = "done") =>
      /\ req[r].resp.status = 200
      /\ req[r].resp.results = <<>>
      /\ req[r].resp.total = 0

\* C20: a number lookup with an empty set of numbers is answered in its
\* first step with 400 "At least one valid number is required", without
\* any cache lookup or upstream call and with the cache left as it was.
C20_EmptySetRejected ==
  [][\A r \in Slots :
       (req[r].pc = "idle" /\ EmptyNumberSet(req'[r])) =>
         /\ req'[r].pc = "done"
         /\ req'[r].resp.status = 400
         /\ req'[r].resp.success = FALSE
         /\ req'[r].resp.error = "At least one valid number is required"
         /\ req'[r].nIdx = 0
         /\ ev'.calls = {}
         /\ cache' = cache]_vars

C20_Witness ==
  \E r \in Slots :
    /\ EmptyNumberSet(req[r])
    /\ req[r].q.numbers = <<"x">>
    /\ ev.op = "arrive" /\ ev.r = r
    /\ req[r].resp.status = 400

\* no comma-separated segment of the path parses to an integer
NoSegmentParses(numbers) ==
  \A seg \in {Split(numbers, ",")[i] : i \in 1..Len(Split(numbers, ","))} :
    ParseIntStr(Trim(seg)).nan

Invalid == <<"i", "n", "v", "a", "l", "i", "d">>

\* C21: a number lookup whose path has no segment that parses to an
\* integer (such as "invalid") is answered 400 with success = false
\* before any upstream call: it never waits for the upstream, reads and
\* stores no record, and no step taken while it is in its slot changes
\* the cache.
C21_UnparsablePathRejected ==
  [][\A r \in Slots :
       (req'[r].kind = "number" /\ NoSegmentParses(req'[r].q.numbers)) =>
         /\ req'[r].pc = "done"
         /\ req'[r].resp.status = 400
         /\ req'[r].resp.success = FALSE
         /\ req'[r].nIdx = 0 /\ ~req'[r].upOk
         /\ req'[r].used = <<>> /\ req'[r].seen = <<>>
         /\ ev'.op = "arrive" /\ ev'.calls = {}
         /\ cache' = cache]_vars

C21_Witness ==
  \E r \in Slots :
    /\ req[r].kind = "number" /\ req[r].q.numbers = Invalid
    /\ ev.op = "arrive" /\ ev.r = r
    /\ req[r].pc = "done" /\ req[r].resp.status = 400

\* the integers a number path asks for, segment by segment
Requested(numbers) ==
  {ParseIntStr(Trim(seg)).v :
     seg \in {p \in {Split(numbers, ",")[i] : i \in 1..Len(Split(numbers, ","))} :
                ~ParseIntStr(Trim(p)).nan}}

\* a number lookup that has read the index from the upstream and asks
\* for no position of it
NoMatch(rq) ==
  /\ rq.kind = "number" /\ rq.idx = "miss" /\ rq.upOk
  /\ Requested(rq.q.numbers) # {}
  /\ Requested(rq.q.numbers) \cap (1..Len(rq.snap)) = {}

\* C22: a number lookup whose numbers match no index entry (also when the
\* upstream listing is empty) is answered 200 with success = true,
\* results = [] and total = 0, and starts no summary fetch.
C22_NoMatchGivesEmptyPage ==
  \A r \in Slots :
    NoMatch(req[r]) =>
      /\ req[r].pc = "done"
      /\ req[r].resp.status = 200
      /\ req[r].resp.success
      /\ req[r].resp.results = <<>>
      /\ req[r].resp.total = 0
      /\ req[r].pend = {} /\ req[r].seen = <<>>
      /\ (ev.op = "indexOk" /\ ev.r = r) => ev.calls = {}
      /\ \A n \in Names : SummaryKey(n) \notin DOMAIN cache

\* number 9 against a listing of three entries
C22_Witness ==
  \E r \in Slots :
    /\ NoMatch(req[r])
    /\ req[r].q.numbers = <<"9">>
    /\ Len(req[r].snap) = 3
    /\ ev.op = "indexOk" /\ ev.r = r
    /\ req[r].resp.status = 200 /\ req[r].resp.total = 0

\* C23: every item a number lookup returns has a number that is one of
\* the requested numbers, whatever the upstream listing and ids are.
C23_ReturnedNumbersWereRequested ==
  \A r \in Answered("number") :
    \A i \in 1..Len(req[r].resp.results) :
      req[r].resp.results[i].number \in Requested(req[r].q.numbers)

\* C24: for every raw limit and offset (missing, non-numeric, zero,
\* negative, above 100) the limit a list response echoes, and its window
\* was sliced with, is in 1..100 and the offset is at least 0.
C24_NormalizedLimitAndOffsetInRange ==
  \A r \in Answered("list") :
    /\ req[r].resp.limit \in 1..MaxLimit
    /\ req[r].resp.offset >= 0
    /\ req[r].resp.limit = req[r].page.limit
    /\ req[r].resp.offset = req[r].page.offset

\* the position of a name in an upstream listing
PositionIn(snap, name) == CHOOSE k \in 1..Len(snap) : snap[k] = name

\* a comes strictly before b by name, or by number (position)
Before(a, b, byName, snap) ==
  IF byName THEN LocaleCompare(Chars(a), Chars(b)) < 0
  ELSE PositionIn(snap, a) < PositionIn(snap, b)

\* the results of rq run in the given order
OrderedBy(rq, byName, descending) ==
  \A i, j \in 1..Len(rq.resp.results) :
    i < j =>
      IF descending
      THEN Before(rq.resp.results[j].name, rq.resp.results[i].name, byName, rq.snap)
      ELSE Before(rq.resp.results[i].name, rq.resp.results[j].name, byName, rq.snap)

\* C25: a list response is ordered by name only when sortBy is exactly
\* "name" and by number otherwise; it is descending only when sortOrder
\* is exactly "desc" and ascending for every other or missing value.
C25_SortDefaults ==
  \A r \in Answered("list") :
    OrderedBy(req[r], req[r].q.sortBy = "name", req[r].q.sortOrder = "desc")

\* the search terms of a raw search parameter, as a set
TermSet(raw) ==
  IF raw.set
  THEN {TrimLower(seg) :
          seg \in {Split(raw.s, ",")[i] : i \in 1..Len(Split(raw.s, ","))}}
       \ {<<>>}
  ELSE {}

\* the names of a listing whose name contains one of the terms; all of
\* them when there is no term
Kept(snap, terms) ==
  {n \in {snap[i] : i \in 1..Len(snap)} :
     terms = {} \/ \E t \in terms : Contains(Chars(n), t)}

\* C26: the search filter keeps exactly the entries whose name contains
\* at least one search term (split on commas, trimmed, lowercased, empty
\* segments dropped), and every entry when there is no term (search
\* missing, blank or only commas).
C26_SearchKeepsMatchingEntries ==
  \A r \in Answered("list") :
    LET kept == Kept(req[r].snap, TermSet(req[r].q.search))
    IN /\ req[r].resp.total = Cardinality(kept)
       /\ \A i \in 1..Len(req[r].resp.results) :
            req[r].resp.results[i].name \in kept
       /\ (WholePage(req[r]) /\ req[r].resp.limit > 0) =>
            {req[r].resp.results[i].name : i \in 1..Len(req[r].resp.results)} = kept

\* the header is absent, does not start with "Bearer ", or carries a
\* token that fails verification
Unauthenticated(header) ==
  \/ ~header.set
  \/ ~StartsWith(header.s, Bearer)
  \/ SubSeq(header.s, Len(Bearer) + 1, Len(header.s)) \notin ValidTokens

\* C27: on every Pokemon endpoint a request without an Authorization
\* header, with one that does not start with "Bearer ", or with a token
\* that fails verification is answered 401 with success = false, its
\* handler does not run, no call is made and the cache is unchanged; with
\* a valid token the handler runs and req.user is the decoded token.
C27_AuthenticationGate ==
  [][\A r \in Slots :
       (req[r].pc = "idle" /\ req'[r].pc # "idle") =>
         IF Unauthenticated(req'[r].auth)
         THEN /\ req'[r].pc = "done"
              /\ req'[r].resp.status = 401
              /\ req'[r].resp.success = FALSE
              /\ ev'.op \notin {"arrive", "detailArrive"}
              /\ ev'.calls = {}
              /\ req'[r].idx = "none" /\ req'[r].nIdx = 0
              /\ cache' = cache
         ELSE /\ ev'.op \in {"arrive", "detailArrive"}
              /\ req'[r].user = [username |-> "admin"]
              /\ req'[r].pc = "done" => req'[r].resp.status # 401]_vars

\* a token that fails verification, rejected with records in the cache
C27_Witness ==
  \E r \in Slots :
    /\ req[r].kind = "detail"
    /\ req[r].auth = Given(Bearer \o <<"b", "a", "d">>)
    /\ ev.op = "unauthorized" /\ ev.r = r
    /\ req[r].resp.status = 401
    /\ AllKey \in DOMAIN cache

\* C28: every accepted request eventually receives a response, also when
\* an upstream call never answers.
C28_EveryRequestAnswered ==
  \A r \in {1} : (req[r].pc # "idle") ~> (req[r].pc = "done")

\* the resource a URL names: a trailing slash names the same one
Resource(url) ==
  IF url # <<>> /\ url[Len(url)] = "/" THEN SubSeq(url, 1, Len(url) - 1) ELSE url

\* no two calls of the history name the same resource
NoRepeat(up) ==
  \A i, j \in 1..Len(up) : i < j => Resource(up[i]) # Resource(up[j])

\* C29: within the handling of one request no upstream resource is
\* requested more than once, on the list, number and detail paths, also
\* after a call has failed.
C29_NoResourceRequestedTwice ==
  \A r \in Slots : NoRepeat(req[r].up)

\* the requests that next(error) has handed to the error handler
AtErrorHandler ==
  {r \in Slots :
     /\ req[r].pc = "done" /\ req[r].err # <<>>
     /\ req[r].kind = "detail" => ~(req[r].err.response /\ req[r].err.status = 404)}

JwtNames == {"JsonWebTokenError", "TokenExpiredError"}

\* C30: an error that reaches the error handler is answered with the
\* upstream's status and {success: false, error: "External API error",
\* details: statusText} when it carries an upstream response, whatever
\* its name; without a response it is answered 401 under one of the two
\* JWT names and 500 "Internal server error" otherwise.
C30_ErrorHandlerResponses ==
  \A r \in AtErrorHandler :
    LET err == req[r].err
        resp == req[r].resp
    IN /\ resp.success = FALSE
       /\ err.response =>
            /\ resp.status = err.status
            /\ resp.error = "External API error"
            /\ resp.details = err.statusText
       /\ (~err.response /\ err.name \in JwtNames) => resp.status = 401
       /\ (~err.response /\ err.name \notin JwtNames) =>
            /\ resp.status = 500
            /\ resp.error = "Internal server error"

\* a network failure of the listing answered 500
C30_Witness ==
  \E r \in AtErrorHandler :
    /\ req[r].kind = "list" /\ req[r].pc = "done"
    /\ req[r].err = NetworkError /\ req[r].nIdx = 1
    /\ req[r].resp.status = 500

MissingOrEmpty(v) == v.t = "undefined" \/ (v.t = "string" /\ v.v = <<>>)
IsString(v) == v.t = "string"
ValidPair(body) ==
  /\ IsString(body.username) /\ body.username.v = <<"a", "d", "m", "i", "n">>
  /\ IsString(body.password) /\ body.password.v = <<"a", "d", "m", "i", "n">>
LoginAnswered(r) == req[r].kind = "login" /\ req[r].pc = "done"

\* C31: POST /api/auth/login sends exactly one response: 400 when the
\* username or the password is missing or empty (whatever the other field
\* is), else 400 when either is not a string, else 401 when the two
\* strings are not the valid pair, and 200 with a token and user.username
\* only for the valid pair.
C31_LoginChecksInOrder ==
  \A r \in Slots :
    LoginAnswered(r) =>
      LET body == req[r].q
          resp == req[r].resp
      IN /\ req[r].sent = 1
         /\ IF MissingOrEmpty(body.username) \/ MissingOrEmpty(body.password)
            THEN /\ resp.status = 400
                 /\ resp.error = "Username and password are required"
            ELSE IF ~IsString(body.username) \/ ~IsString(body.password)
                 THEN resp.status = 400 /\ ~resp.success
                 ELSE IF ~ValidPair(body)
                      THEN /\ resp.status = 401
                           /\ resp.error = "Invalid username or password"
                      ELSE /\ resp.status = 200 /\ resp.success
                           /\ IsSigned(resp.data.token)
                           /\ resp.data.user.username = body.username.v
         /\ resp.status = 200 <=> ValidPair(body)

\* a wrong username with a password that is a number: the format check
\* answers before the credentials are compared
C31_Witness ==
  /\ LoginAnswered(1)
  /\ IsString(req[1].q.username) /\ ~MissingOrEmpty(req[1].q.username)
  /\ ~ValidPair(req[1].q)
  /\ req[1].q.password.t = "number" /\ req[1].q.password.v # 0
  /\ req[1].resp.status = 400
  /\ req[1].sent = 1

\* the client has logged out since the login that issued its token
LoggedOut == lastOk.token # <<>> /\ lastOk.loggedOut
Unexpired(token, t) == t \div 1000 < token[2].iat + 24 * 60 * 60
PresentsIssued(body) ==
  body.token.t = "string" /\ body.token.v = lastOk.token

\* C37: logout changes no server state: a token issued by a successful
\* login and presented after POST /api/auth/logout is accepted by
\* POST /api/auth/verify and by the gate of the list endpoint as long as
\* it has not expired, and refused by both once it has.
C37_TokenSurvivesLogout ==
  [][/\ ev'.op = "logout" => cache' = cache /\ listing' = listing
     /\ (LoggedOut /\ ev'.op = "verify" /\ PresentsIssued(req'[ev'.r].q)) =>
          IF Unexpired(lastOk.token, now)
          THEN /\ req'[ev'.r].resp.status = 200
               /\ req'[ev'.r].resp.data.user.username = lastOk.token[2].username
          ELSE req'[ev'.r].resp.status = 401
     /\ (/\ LoggedOut /\ req[2].pc = "idle" /\ req'[2].pc # "idle"
         /\ req'[2].auth = Given(Bearer \o lastOk.token)) =>
          IF Unexpired(lastOk.token, now)
          THEN /\ ev'.op # "unauthorized"
               /\ req'[2].pc = "awaitIndex"
               /\ req'[2].user.username = lastOk.token[2].username
          ELSE /\ ev'.op = "unauthorized"
               /\ req'[2].resp.status = 401
    ]_vars

\* after a logout the token has been verified and has just passed the gate
C37_Witness ==
  /\ LoggedOut
  /\ req[1].kind = "verify" /\ req[1].pc = "done"
  /\ PresentsIssued(req[1].q)
  /\ req[1].resp.status = 200
  /\ ev.r = 2 /\ req[2].pc = "awaitIndex"
  /\ req[2].auth = Given(Bearer \o lastOk.token)

\* the index a list or number-lookup request has computed its page from
SeesIndex(r) ==
  req[r].kind \in {"list", "number"} /\ AllKey \in DOMAIN req[r].used
IndexSeen(r) ==
  IF "absent" \in DOMAIN req[r].used[AllKey] THEN <<>>
  ELSE req[r].used[AllKey].data.v
SameMapping(a, b) ==
  \A i \in 1..Len(a), j \in 1..Len(b) :
    a[i].name = b[j].name => a[i].number = b[j].number
Positional(index) == \A i \in 1..Len(index) : index[i].number = i
UniqueNumbers(index) ==
  \A i, j \in 1..Len(index) : index[i].number = index[j].number => i = j
ListingOf(index) == [i \in 1..Len(index) |-> index[i].name]

\* the TTL window of a stored index record, and whether a request read
\* the index key inside it
InWindow(rec, t) == rec.timestamp <= t /\ t - rec.timestamp < CACHE_TTL
Stores(used) == AllKey \in DOMAIN used /\ "absent" \notin DOMAIN used[AllKey]
SeenAt(r) ==
  IF req[r].idx = "hit" THEN req[r].t0 ELSE req[r].used[AllKey].timestamp

\* C32: a stored index carries the numbers 1..n in upstream listing order,
\* so its numbers are unique, and a request served inside the TTL window
\* of an index record has seen the same number for every name as the
\* request that was served from that record.
C32_NumbersStableWithinWindow ==
  /\ AllKey \in DOMAIN cache =>
       /\ Positional(cache[AllKey].data.v)
       /\ UniqueNumbers(cache[AllKey].data.v)
       /\ ListingOf(cache[AllKey].data.v) \in Listings
  /\ \A r1, r2 \in Slots :
       (/\ SeesIndex(r1) /\ Stores(req[r1].used)
        /\ SeesIndex(r2) /\ Stores(req[r2].used)
        /\ InWindow(req[r1].used[AllKey], SeenAt(r2))) =>
         SameMapping(IndexSeen(r1), IndexSeen(r2))
  /\ \A r \in Slots :
       (/\ SeesIndex(r) /\ Stores(req[r].used)
        /\ "used" \in DOMAIN lastOk /\ Stores(lastOk.used)
        /\ InWindow(lastOk.used[AllKey], SeenAt(r))) =>
         SameMapping(lastOk.used[AllKey].data.v, IndexSeen(r))

IndexStored == AllKey \in DOMAIN cache
StoresRefetch == ev'.op = "indexOk" /\ req[ev'.r].idx = "miss"

\* C33: no step of a list or number-lookup request changes the record
\* under the index key, whatever its search, sort and page window, except
\* the step that stores a refetched index; so the record always holds its
\* entries in the upstream listing order in which it was stored.
C33_RequestsLeaveIndexAsStored ==
  [][/\ (IndexStored /\ ~StoresRefetch) =>
          /\ AllKey \in DOMAIN cache'
          /\ cache'[AllKey] = cache[AllKey]
     /\ (AllKey \in DOMAIN cache' /\ StoresRefetch) =>
          /\ ListingOf(cache'[AllKey].data.v) = req[ev'.r].snap
          /\ Positional(cache'[AllKey].data.v)
    ]_vars

\* a list request sorted by name, descending, has been served from a
\* cached index of several entries
C33_Witness ==
  /\ req[1].kind = "list" /\ req[1].pc = "done" /\ req[1].idx = "hit"
  /\ req[1].resp.status = 200
  /\ req[1].q.sortBy = "name" /\ req[1].q.sortOrder = "desc"
  /\ ~req[1].q.search.set
  /\ Len(req[1].resp.results) > 1
  /\ req[1].resp.results[1].name # cache[AllKey].data.v[1].name

\* the index fetch of slot r completes in this step, and another request
\* whose index fetch was in flight beside it has completed and stored
IndexFetchCompletes(r) == ev'.op = "indexOk" /\ ev'.r = r
CompletedBeside(o, r) ==
  /\ o # r
  /\ req[o].idx = "miss" /\ req[o].pc \in {"awaitSummaries", "done"}
  /\ Stores(req[o].used)
  /\ req[o].used[AllKey].timestamp >= req[r].t0
OwnIndex(r) == Arr(IndexOf(req[r].snap))
ReceivesOwn(r) ==
  /\ req'[r].page = PageOf(req[r].kind, OwnIndex(r).v, req[r].q)
  /\ req'[r].pc = "done" => req'[r].resp.total = Len(req[r].snap)

\* a summary fetch that completes stores its own value with the time of
\* its completion, whatever record the key holds
SummaryFetchStoresOwn ==
  ev'.op = "summaryOk" =>
    /\ cache'[ev'.key].timestamp = now
    /\ \E i \in req[ev'.r].pend :
         /\ SummaryKey(req[ev'.r].page.win[i].name) = ev'.key
         /\ cache'[ev'.key].data = Obj(SummaryOf(req[ev'.r].page.win[i].name))
         /\ req'[ev'.r].got[i] = cache'[ev'.key].data

\* C34: when two fetches for the index key overlap, the fetch that
\* completes last leaves its own value in the record with the time of
\* its completion, and its caller answers from its own value.
C34_LastCompletionWins ==
  [][/\ \A r \in {1, 2} :
       (IndexFetchCompletes(r) /\ \E o \in {1, 2} : CompletedBeside(o, r)) =>
         /\ AllKey \in DOMAIN cache'
         /\ cache'[AllKey].timestamp = now
         /\ cache'[AllKey].data = OwnIndex(r)
         /\ ReceivesOwn(r)
     /\ SummaryFetchStoresOwn
    ]_vars

\* C34, amended: the fetch that completes last replaces the record with
\* its own value and the time of its completion when its value is
\* cacheable; when it completes with an empty index the record of the
\* other fetch stays as it is. Each caller answers from its own value.
C34_LastCacheableCompletionWins ==
  [][/\ \A r \in {1, 2} :
       (IndexFetchCompletes(r) /\ \E o \in {1, 2} : CompletedBeside(o, r)) =>
         /\ IF req[r].snap # <<>>
            THEN /\ AllKey \in DOMAIN cache'
                 /\ cache'[AllKey].timestamp = now
                 /\ cache'[AllKey].data = OwnIndex(r)
            ELSE cache' = cache
         /\ ReceivesOwn(r)
     /\ SummaryFetchStoresOwn
    ]_vars

\* request 1 started first, with the older listing, and has completed
\* last, after request 2 stored its index at an earlier instant: the
\* record holds the older listing under the later time
C34_Witness ==
  /\ ev.op = "indexOk" /\ ev.r = 1
  /\ req[2].idx = "miss" /\ req[2].pc \in {"awaitSummaries", "done"}
  /\ Stores(req[2].used)
  /\ req[1].t0 < req[2].t0
  /\ req[1].snap # req[2].snap /\ req[1].snap # <<>>
  /\ req[2].used[AllKey].timestamp < now
  /\ cache[AllKey].timestamp = now
  /\ ListingOf(cache[AllKey].data.v) = req[1].snap
  /\ ListingOf(req[2].used[AllKey].data.v) = req[2].snap

\* a summary fetch of the window of r has failed and r has answered with it
WindowFailed(rq) ==
  /\ rq.kind \in {"list", "number"} /\ rq.pc = "done" /\ rq.err # <<>>
  /\ rq.page # <<>>
  /\ Len(rq.page.win) > 0
NoResults(resp) ==
  /\ resp.status >= 400 /\ ~resp.success
  /\ "results" \notin DOMAIN resp

\* C35: the first summary fetch of a window that fails ends the request
\* with the error response, which carries no results and is not replaced
\* later; the failure changes nothing in the cache, so the index and the
\* summaries stored so far stay; and a summary fetch of the same window
\* that succeeds, before or after the error response, stores its summary
\* with the time of its completion and leaves the index record alone.
C35_FailedWindowStillCachesSuccesses ==
  [][\A r \in Slots :
       /\ (ev'.op = "summaryFail" /\ ev'.r = r) =>
            /\ cache' = cache
            /\ req[r].pc = "awaitSummaries" =>
                 /\ WindowFailed(req'[r])
                 /\ NoResults(req'[r].resp)
       /\ (WindowFailed(req[r]) /\ req'[r].pc = "done") =>
            req'[r].resp = req[r].resp
       /\ (ev'.op = "summaryOk" /\ ev'.r = r) =>
            /\ ev'.key \in DOMAIN cache'
            /\ cache'[ev'.key].timestamp = now
            /\ cache'[ev'.key].data.v.name \in
                 {req[r].page.win[i].name : i \in req[r].pend}
            /\ AllKey \in DOMAIN cache =>
                 AllKey \in DOMAIN cache' /\ cache'[AllKey] = cache[AllKey]
       /\ WindowFailed(req'[r]) => AllKey \in DOMAIN cache'
    ]_vars

\* the request has answered with the failure of one summary fetch, and the
\* other summary of its window has just been stored, after the response
C35_Witness ==
  /\ WindowFailed(req[1]) /\ NoResults(req[1].resp)
  /\ Len(req[1].page.win) = 2
  /\ ev.op = "summaryOk" /\ ev.r = 1
  /\ ev.key \in DOMAIN cache /\ cache[ev.key].timestamp = now
  /\ req[1].pend = {}
  /\ AllKey \in DOMAIN cache
  /\ \E i \in 1..2 : SummaryKey(req[1].page.win[i].name) \notin DOMAIN cache

\* the two kinds of per-entry record: a detail result carries the species
\* fields, a summary does not
IsDetailRecord(rec) == rec.data.t = "object" /\ "fields" \in DOMAIN rec.data.v
IsSummaryRecord(rec) == rec.data.t = "object" /\ "fields" \notin DOMAIN rec.data.v
UnderDetailKey(key) == key[1] = "pokemon-detail-"
UnderSummaryKey(key) == key[1] = "pokemon-"
PastIndex(rq) ==
  rq.kind \in {"list", "number"} /\ rq.pc \in {"awaitSummaries", "done"}
  /\ rq.page # <<>>
Called(rq, url) == \E k \in 1..Len(rq.up) : rq.up[k] = url

====
